---- MODULE Spec2Model ----
(***************************************************************************)
(* Resource lifecycle of the mssql-ts-ffi driver: one MssqlConnection with *)
(* the Transactions and QueryStreams it owns, the slow boundary calls in   *)
(* flight on its handle, and its three disposal paths; and the pool        *)
(* registry (createPool / MssqlPool.close against store_pool /             *)
(* remove_pool).                                                           *)
(***************************************************************************)
EXTENDS Integers, Sequences, FiniteSets, TLC

\* ---- bounds ----
MaxTx == 1
MaxCur == 1
MaxHandles == 3
MaxCb == 2
MaxIter == 2
MaxCalls == 2
MaxStarting == 1
MaxAcquires == 1
MaxRows == 2
MaxPoolCalls == 2
MaxLen == 2
MaxParams == 1
MaxSets == 2
MaxCallers == 2
MaxPromises == 2

TxIds == 1..MaxTx
CurIds == 1..MaxCur

VARIABLES
  poolId,        \* MssqlConnection.#poolId: 0 = null (standalone), else the pool's id
  disposed,      \* MssqlConnection.#disposed
  hasError,      \* MssqlConnection.#hasError
  transactions,  \* MssqlConnection.#transactions, in insertion order
  streams,       \* MssqlConnection.#streams
  hasBuilder,    \* a BulkInsertBuilder was obtained from cn.bulk()
  nextTx,        \* next Transaction to be constructed
  committed,     \* Transaction.#committed, per transaction
  rolledBack,    \* Transaction.#rolledBack, per transaction
  txStreams,     \* Transaction.#streams, per transaction
  nextCur,       \* next cursor handle the boundary hands out
  curClosed,     \* QueryStream.#closed, per cursor
  onCloseCallbacks, \* QueryStream.#onCloseCallbacks, per cursor
  closeThrows,   \* the cursors whose ffi.streamClose call throws
  cbInvocations, \* per cursor, the callbacks passed to _onClose so far, each with
                 \* the number of times it was invoked
  inflight,      \* slow boundary calls issued on the connection handle and not yet
                 \* returned
  observed,      \* what the last step ran into: the boundary call it saw fail,
                 \* "disposed" for a disposal call that found #disposed set, or
                 \* "notActive" for a commit or rollback refused by _ensureActive
  dispMode,      \* which disposal entry point passed the #disposed guard
  dispPc,        \* position of that disposal
  dispTxs,       \* the part of `txs` that #cleanup has not visited yet
  nPoolRelease,  \* ffi.poolRelease calls for the connection handle
  nDisconnect,   \* ffi.disconnect calls for the connection handle
  nStreamClose,  \* ffi.streamClose calls, per cursor
  startHadActiveTx, \* a Transaction of the connection was active when disposal started
  nRollbackByDispose, \* per transaction, the rollback boundary calls issued by
                 \* Transaction[Symbol.asyncDispose]
  trackedAtRollback, \* when the last step was a Transaction[Symbol.asyncDispose]
                 \* that called the rollback: the cursors the transaction
                 \* tracked on entry, who disposed, and whether the cursor was
                 \* closed when the rollback was called
  poolDedup,     \* POOL_DEDUP: dedup key -> pool id (0 = no entry)
  pools,         \* the boundary's pool table: per pool id, its dedup key,
                 \* PoolHandle.ref_count, the pool-tuning it was built with, and
                 \* how many times it was destroyed
  nextPoolId,    \* next pool id the boundary hands out
  creating,      \* per config, the createPool calls whose ffi.poolCreate has not
                 \* returned
  handles,       \* the MssqlPool objects returned by createPool: #poolId, #closed,
                 \* the config their createPool was called with, and the
                 \* ffi.poolClose calls made through them
  reg,           \* the registry's lock, the store_pool / remove_pool calls between
                 \* their two registry accesses, the MssqlPool objects whose
                 \* ffi.poolClose has not reached the registry, and per pool id
                 \* the completed opens and closes
  lastConnect    \* what the last step's call on an MssqlPool ran into: how its
                 \* connect() ended, or "closed" for a close() that found #closed set

VARIABLES
  done,          \* per cursor, QueryStream.#done
  iters,         \* the consumers of the cursors: per consumer its cursor, whether
                 \* it is a for-await loop ("iter") or a ReadableStream ("rs"),
                 \* where it stands, and whether it ever called ffi.streamNext
  conv,          \* the pool-level calls (convenience commands, pool.queryStream,
                 \* bulk execute, filestreamAvailable): where each stands, and
                 \* the fields of the MssqlConnection it acquired
  ended,         \* the transactions ended at the boundary: ffi.commit or
                 \* ffi.rollback resolved without error for them
  execRes,       \* an ExecResult: its #data and the outcome of the last accessor call
  ffi            \* resolve.ts: _ffiPromise, the backends created, the callers of getFfi

connVars == <<poolId, disposed, hasError, transactions, streams, hasBuilder,
              nextTx, committed, rolledBack, txStreams, nextCur, curClosed,
              onCloseCallbacks, closeThrows, cbInvocations, inflight, observed, dispMode, dispPc, dispTxs,
              nPoolRelease, nDisconnect, nStreamClose, startHadActiveTx,
              nRollbackByDispose, trackedAtRollback>>
poolVars == <<poolDedup, pools, nextPoolId, creating, handles, reg, lastConnect>>
libVars == <<execRes, ffi>>
auxVars == <<done, iters, conv, libVars, ended>>
vars == <<connVars, poolVars, auxVars>>

\* ---- Transaction (transaction.ts) ----

Created == 1..(nextTx - 1)

IsActive(t) == ~committed[t] /\ ~rolledBack[t]

\* ---- QueryStream close and its callbacks (stream.ts) ----

\* The objects a close() can touch, as one record.
World == [closed |-> curClosed, cbs |-> onCloseCallbacks, conn |-> streams,
          tx |-> txStreams, calls |-> nStreamClose, rolledBack |-> rolledBack,
          inv |-> cbInvocations, throws |-> closeThrows]

SetWorld(w) ==
  /\ curClosed' = w.closed
  /\ onCloseCallbacks' = w.cbs
  /\ cbInvocations' = w.inv
  /\ closeThrows' = w.throws
  /\ streams' = w.conn
  /\ txStreams' = w.tx
  /\ nStreamClose' = w.calls
  /\ rolledBack' = w.rolledBack

\* The two callbacks the driver registers: the connection's and the transaction's
\* untrack of stream c; and a callback of the caller of _onClose, which may call
\* close() on the stream it is registered on.
CbIds == 1..MaxCb
ConnCallback == [owner |-> "conn", tx |-> 0, id |-> 0, reenter |-> FALSE]
TxCallback(t) == [owner |-> "tx", tx |-> t, id |-> 0, reenter |-> FALSE]
UserCallback(k, reenter) == [owner |-> "user", tx |-> 0, id |-> k, reenter |-> reenter]

\* cb passed to _onClose of cursor c; cb() called. A callback is told from the
\* others of its cursor by who registered it.
CbKey(cb) == [owner |-> cb.owner, id |-> cb.id, reenter |-> cb.reenter]
Registered(w, c, cb) ==
  [w EXCEPT !.inv[c] = [x \in DOMAIN @ \cup {CbKey(cb)} |->
                          IF x \in DOMAIN @ THEN @[x] ELSE 0]]
Invoked(w, c, cb) == [w EXCEPT !.inv[c][CbKey(cb)] = @ + 1]

RECURSIVE StreamClose(_, _)
RunCallback(w, c, cb) ==
  LET w1 == Invoked(w, c, cb)
  IN CASE cb.owner = "conn" -> [w1 EXCEPT !.conn = @ \ {c}]
       [] cb.owner = "tx" -> [w1 EXCEPT !.tx[cb.tx] = @ \ {c}]
       [] OTHER -> IF cb.reenter THEN StreamClose(w1, c) ELSE w1

RECURSIVE RunCallbacks(_, _, _)
RunCallbacks(w, c, cbs) ==
  IF cbs = <<>> THEN w
  ELSE RunCallbacks(RunCallback(w, c, Head(cbs)), c, Tail(cbs))

\* _onClose.
OnClose(w, c, cb) ==
  IF w.closed[c] THEN RunCallback(Registered(w, c, cb), c, cb)
  ELSE [Registered(w, c, cb) EXCEPT !.cbs[c] = Append(@, cb)]

\* close() leaves by an exception: ffi.streamClose throws on the first close.
CloseThrows(w, c) == ~w.closed[c] /\ c \in w.throws

\* close(): the objects after it has returned or thrown.
StreamClose(w, c) ==
  IF w.closed[c] THEN w
  ELSE IF c \in w.throws
       THEN [w EXCEPT !.closed[c] = TRUE, !.calls[c] = @ + 1]
       ELSE RunCallbacks([w EXCEPT !.closed[c] = TRUE, !.calls[c] = @ + 1,
                                   !.cbs[c] = <<>>],
                         c, w.cbs[c])

RECURSIVE CloseEach(_, _)
CloseEach(w, S) ==
  IF S = {} THEN w
  ELSE LET c == CHOOSE x \in S : TRUE
       IN CloseEach(StreamClose(w, c), S \ {c})

TrackStream(w, t, c) == OnClose([w EXCEPT !.tx[t] = @ \cup {c}], c, TxCallback(t))

CloseAllStreams(w, t) == CloseEach([w EXCEPT !.tx[t] = {}], w.tx[t])

ForceInactive(w, t) ==
  LET w1 == CloseAllStreams(w, t)
  IN IF ~committed[t] /\ ~w1.rolledBack[t]
     THEN [w1 EXCEPT !.rolledBack[t] = TRUE]
     ELSE w1

\* Transaction[Symbol.asyncDispose] up to its await: the objects after
\* #closeAllStreams, whether the rollback is called, and for the cursors the
\* transaction tracked on entry whether they are closed when it is called.
\* Before it, the
\* method with the rollback called ahead of #closeAllStreams.
TxAsyncDisposeRollbackFirst(w, t) ==
  [w |-> CloseAllStreams(w, t),
   issue |-> ~committed[t] /\ ~w.rolledBack[t],
   tracked |-> IF ~committed[t] /\ ~w.rolledBack[t]
               THEN {[cur |-> c, closed |-> w.closed[c]] : c \in w.tx[t]}
               ELSE {}]
TxAsyncDispose(w, t) ==
  LET w1 == CloseAllStreams(w, t)
      active == ~committed[t] /\ ~w1.rolledBack[t]
  IN [w |-> w1,
      issue |-> active,
      tracked |-> IF active
                  THEN {[cur |-> c, closed |-> w1.closed[c]] : c \in w.tx[t]}
                  ELSE {}]

\* ---- MssqlConnection commands (connection.ts) ----

\* A boundary call in flight, with the method that awaits it (by) and the
\* boundary calls that method makes after it when it succeeds (rest). Nothing
\* in the code keeps identical calls apart or limits them: inflight is their
\* bag, kept as a set in which the identical calls in flight are numbered 1..k.
Call(kind, tx, by) == [kind |-> kind, tx |-> tx, by |-> by, n |-> 1, rest |-> 0]

\* The methods whose failed boundary call sets #hasError; before it, the set
\* without exec.
ErrorKindsNoExec == {"query", "execute", "queryStream", "beginTransaction"}
ErrorKinds == {"query", "execute", "exec", "queryStream", "beginTransaction"}

Pending(kind) == {c \in inflight : c.kind = kind}
SameIn(calls, call) ==
  {c \in calls : /\ c.kind = call.kind /\ c.tx = call.tx
                 /\ c.by = call.by /\ c.rest = call.rest}
Same(call) == SameIn(inflight, call)
IssuedIn(calls, call) ==
  calls \cup {[call EXCEPT !.n = Cardinality(SameIn(calls, call)) + 1]}
Issued(call) == IssuedIn(inflight, call)
Last(call) == call \in inflight /\ call.n = Cardinality(Same(call))
\* The method that awaited `call` calls the boundary again in its continuation.
Reissued(call, next) == IssuedIn(inflight \ {call}, next)

\* Transaction._ensureActive() returns (does not throw); before it, a check
\* that lets every transaction pass.
EnsureActiveAlways(t) == TRUE
EnsureActive(t) == IsActive(t)

\* #ensureOpen(opts) with opts.transaction = tx (0: none) and no abort signal.
EnsureOpen(tx) == ~disposed /\ (IF tx = 0 THEN TRUE ELSE EnsureActive(tx))

\* What a step that resumes after a boundary call of this kind observed.
Failure(kind, ok) == IF ok THEN "none" ELSE kind
NoFailure == observed' = "none"

\* The calls the holder of the connection has in flight (its own and those of
\* its Transaction disposals) stay below the bound of the model.
BelowMaxCalls ==
  Cardinality({c \in inflight :
                 c.by \in {"user", "txDispose", "filestreamAvailable"}}) < MaxCalls

poolFrame == UNCHANGED <<poolVars, auxVars>>
implicitFrame == UNCHANGED nRollbackByDispose /\ trackedAtRollback' = {}
dispFrame == /\ UNCHANGED <<dispMode, dispPc, dispTxs, nPoolRelease,
                            nDisconnect, startHadActiveTx>>
             /\ implicitFrame
txFrame == UNCHANGED <<transactions, nextTx, committed, rolledBack, txStreams>>
curFrame == UNCHANGED <<streams, nextCur, curClosed, onCloseCallbacks,
                        closeThrows, cbInvocations, nStreamClose>>

\* query / execute / exec up to the await of the boundary call.
Issue(kind, tx) ==
  /\ EnsureOpen(tx)
  /\ BelowMaxCalls
  /\ inflight' = Issued(Call(kind, 0, "user"))
  /\ UNCHANGED <<poolId, disposed, hasError, hasBuilder>>
  /\ NoFailure /\ txFrame /\ curFrame /\ dispFrame /\ poolFrame

\* The continuation after the await: result === null sets #hasError and throws.
Return(kind, ok) ==
  /\ \E call \in Pending(kind) :
       Last(call) /\ call.by = "user" /\ inflight' = inflight \ {call}
  /\ hasError' = (hasError \/ (~ok /\ kind \in ErrorKinds))
  /\ observed' = Failure(kind, ok)
  /\ UNCHANGED <<poolId, disposed, hasBuilder>>
  /\ txFrame /\ curFrame /\ dispFrame /\ poolFrame

query == \E tx \in {0} \cup Created : Issue("query", tx)
queryReturn == \E ok \in BOOLEAN : Return("query", ok)
execute == \E tx \in {0} \cup Created : Issue("execute", tx)
executeReturn == \E ok \in BOOLEAN : Return("execute", ok)
exec == \E tx \in {0} \cup Created : Issue("exec", tx)
execReturn == \E ok \in BOOLEAN : Return("exec", ok)

queryStream ==
  \E tx \in {0} \cup Created :
    /\ EnsureOpen(tx)
    /\ nextCur + Cardinality(Pending("queryStream")) <= MaxCur
    /\ BelowMaxCalls
    /\ inflight' = Issued(Call("queryStream", tx, "user"))
    /\ UNCHANGED <<poolId, disposed, hasError, hasBuilder>>
    /\ NoFailure /\ txFrame /\ curFrame /\ dispFrame /\ poolFrame

\* cursorId === INVALID_HANDLE sets #hasError; otherwise the new QueryStream is
\* tracked by the connection and, when opts.transaction is given, by it too.
queryStreamReturn ==
  \E call \in Pending("queryStream"), ok \in BOOLEAN :
    /\ Last(call)
    /\ inflight' = inflight \ {call}
    /\ hasError' = (hasError \/ (~ok /\ "queryStream" \in ErrorKinds))
    /\ observed' = Failure("queryStream", ok)
    /\ IF ok
       THEN LET c == nextCur
                w0 == [World EXCEPT !.conn = @ \cup {c}]
                w1 == OnClose(w0, c, ConnCallback)
                w2 == IF call.tx # 0 THEN TrackStream(w1, call.tx, c) ELSE w1
            IN SetWorld(w2) /\ nextCur' = nextCur + 1
       ELSE UNCHANGED <<streams, nextCur, curClosed, onCloseCallbacks, cbInvocations,
                        closeThrows,
                        nStreamClose, txStreams, rolledBack>>
    /\ UNCHANGED <<poolId, disposed, hasBuilder, transactions, nextTx, committed>>
    /\ dispFrame /\ poolFrame

\* opts?.signal?.throwIfAborted() in #ensureOpen, for a call whose options
\* carry a signal that is aborted or not. Before it, an #ensureOpen that does
\* not look at the signal.
ThrowIfAbortedNever(aborted) == FALSE
ThrowIfAborted(aborted) == aborted

\* A command called with a cancellation signal in its options, up to the await
\* of its boundary call: #ensureOpen throws on a disposed connection, then on
\* an aborted signal, then on an inactive transaction.
EnsureOpenThrows(tx, aborted) ==
  IF disposed THEN "disposed"
  ELSE IF ThrowIfAborted(aborted) THEN "aborted"
  ELSE IF tx = 0 THEN "none"
  ELSE IF EnsureActive(tx) THEN "none" ELSE "notActive"

IssueWithSignal(call, tx, aborted) ==
  /\ IF EnsureOpenThrows(tx, aborted) # "none"
     THEN UNCHANGED inflight
     ELSE /\ BelowMaxCalls
          /\ inflight' = Issued(call)
  /\ observed' = IF ~disposed /\ aborted THEN "aborted"
                 ELSE EnsureOpenThrows(tx, aborted)
  /\ UNCHANGED <<poolId, disposed, hasError, hasBuilder>>
  /\ txFrame /\ curFrame /\ dispFrame /\ poolFrame

querySignal ==
  \E tx \in {0} \cup Created, aborted \in BOOLEAN :
    IssueWithSignal(Call("query", 0, "user"), tx, aborted)
executeSignal ==
  \E tx \in {0} \cup Created, aborted \in BOOLEAN :
    IssueWithSignal(Call("execute", 0, "user"), tx, aborted)
execSignal ==
  \E tx \in {0} \cup Created, aborted \in BOOLEAN :
    IssueWithSignal(Call("exec", 0, "user"), tx, aborted)
queryStreamSignal ==
  \E tx \in {0} \cup Created, aborted \in BOOLEAN :
    /\ nextCur + Cardinality(Pending("queryStream")) <= MaxCur
    /\ IssueWithSignal(Call("queryStream", tx, "user"), tx, aborted)

\* querySingle after `await this.query(...)`: a failed boundary call has set
\* #hasError inside query; a result that is not exactly one row throws
\* without touching it. Before it, a row-count error that sets the flag too.
RowCounts == 0..2
AnyFailure(ok, rows) == ~ok \/ rows # 1
BoundaryFailed(ok, rows) == ~ok

querySingleReturn ==
  \E ok \in BOOLEAN, rows \in RowCounts :
    /\ \E call \in Pending("query") :
         Last(call) /\ call.by = "user" /\ inflight' = inflight \ {call}
    /\ hasError' = (hasError \/ BoundaryFailed(ok, rows))
    /\ observed' = IF ~ok THEN "query" ELSE IF rows # 1 THEN "rowCount" ELSE "none"
    /\ UNCHANGED <<poolId, disposed, hasBuilder>>
    /\ txFrame /\ curFrame /\ dispFrame /\ poolFrame

bulk ==
  /\ EnsureOpen(0)
  /\ ~hasBuilder
  /\ hasBuilder' = TRUE
  /\ UNCHANGED <<poolId, disposed, hasError, inflight>>
  /\ NoFailure /\ txFrame /\ curFrame /\ dispFrame /\ poolFrame

\* The ffi.bulkInsert calls of one execute(): one for all the rows, or, with
\* a batch size that the rows exceed, one per chunk of #executeBatched.
Chunks(rows, batchSize) ==
  IF batchSize > 0 /\ rows > batchSize
  THEN (rows + batchSize - 1) \div batchSize
  ELSE 1

\* BulkInsertBuilder.execute on a builder with this many rows and this batch
\* size: it throws when the builder has no columns, otherwise it runs to the
\* await of the first ffi.bulkInsert, in #executeSingle or in the loop of
\* #executeBatched.
bulkExecute ==
  \E columns \in BOOLEAN, rows \in 0..MaxRows, batchSize \in 0..MaxRows :
    /\ hasBuilder
    /\ IF columns
       THEN /\ BelowMaxCalls
            /\ inflight' = Issued([Call("bulkInsert", 0, "user")
                                     EXCEPT !.rest = Chunks(rows, batchSize) - 1])
            /\ NoFailure
       ELSE observed' = "noColumns" /\ UNCHANGED inflight
    /\ UNCHANGED <<poolId, disposed, hasError, hasBuilder>>
    /\ txFrame /\ curFrame /\ dispFrame /\ poolFrame

\* #executeSingle after the await: result === null throws, which ends
\* execute(); otherwise the loop of #executeBatched calls ffi.bulkInsert for
\* the next chunk, if there is one.
bulkExecuteReturn ==
  \E ok \in BOOLEAN :
    /\ \E call \in Pending("bulkInsert") :
         /\ Last(call)
         /\ inflight' = IF ok /\ call.rest > 0
                        THEN Reissued(call, [call EXCEPT !.rest = @ - 1])
                        ELSE inflight \ {call}
    /\ observed' = Failure("bulkInsert", ok)
    /\ UNCHANGED <<poolId, disposed, hasError, hasBuilder>>
    /\ txFrame /\ curFrame /\ dispFrame /\ poolFrame

\* filestreamAvailable(database) up to its first await: false at once when the
\* local driver is missing; otherwise this.scalar -> this.query, whose
\* #ensureOpen throws into the catch (false again) on a disposed connection,
\* and which calls ffi.query for the server's access level on an open one.
filestreamAvailable ==
  \E local \in BOOLEAN :
    /\ IF local /\ EnsureOpen(0)
       THEN /\ BelowMaxCalls
            /\ inflight' = Issued([Call("query", 0, "filestreamAvailable")
                                     EXCEPT !.rest = 1])
       ELSE UNCHANGED inflight
    /\ UNCHANGED <<poolId, disposed, hasError, hasBuilder>>
    /\ NoFailure /\ txFrame /\ curFrame /\ dispFrame /\ poolFrame

\* A query of filestreamAvailable returned. A failed call sets #hasError
\* inside query, and the catch around the scalar turns the error into false;
\* an access level below 2 gives false; otherwise the second scalar is called
\* (its #ensureOpen throwing into the catch when the connection was disposed
\* meanwhile), and the result of that one is the answer.
filestreamAvailableReturn ==
  \E ok \in BOOLEAN, enabled \in BOOLEAN :
    /\ \E call \in Pending("query") :
         /\ Last(call)
         /\ call.by = "filestreamAvailable"
         /\ inflight' = IF ok /\ enabled /\ call.rest > 0 /\ EnsureOpen(0)
                        THEN Reissued(call, [call EXCEPT !.rest = @ - 1])
                        ELSE inflight \ {call}
    /\ hasError' = (hasError \/ (~ok /\ "query" \in ErrorKinds))
    /\ UNCHANGED <<poolId, disposed, hasBuilder>>
    /\ NoFailure /\ txFrame /\ curFrame /\ dispFrame /\ poolFrame

beginTransaction ==
  /\ EnsureOpen(0)
  /\ nextTx + Cardinality(Pending("beginTransaction")) <= MaxTx
  /\ BelowMaxCalls
  /\ inflight' = Issued(Call("beginTransaction", 0, "user"))
  /\ UNCHANGED <<poolId, disposed, hasError, hasBuilder>>
  /\ NoFailure /\ txFrame /\ curFrame /\ dispFrame /\ poolFrame

beginTransactionReturn ==
  \E ok \in BOOLEAN :
    /\ \E call \in Pending("beginTransaction") :
         Last(call) /\ inflight' = inflight \ {call}
    /\ hasError' = (hasError \/ (~ok /\ "beginTransaction" \in ErrorKinds))
    /\ observed' = Failure("beginTransaction", ok)
    /\ IF ok
       THEN transactions' = Append(transactions, nextTx) /\ nextTx' = nextTx + 1
       ELSE UNCHANGED <<transactions, nextTx>>
    /\ UNCHANGED <<poolId, disposed, hasBuilder, committed, rolledBack, txStreams>>
    /\ curFrame /\ dispFrame /\ poolFrame

\* Transaction.commit: _ensureActive throws, or the method runs up to the await
\* of commitFn (ffi.commit).
commit ==
  \E t \in Created :
    /\ IF EnsureActive(t)
       THEN /\ BelowMaxCalls
            /\ inflight' = Issued(Call("commit", t, "user"))
            /\ NoFailure
       ELSE observed' = "notActive" /\ UNCHANGED inflight
    /\ UNCHANGED <<poolId, disposed, hasError, hasBuilder>>
    /\ txFrame /\ curFrame /\ dispFrame /\ poolFrame

\* What a commit or rollback call that returned leaves at the boundary: the
\* transaction is ended there when the call resolved without error.
EndedAtBoundary(call, ok) ==
  /\ ended' = IF ok THEN ended \cup {call.tx} ELSE ended
  /\ UNCHANGED <<poolVars, done, iters, conv, libVars>>

\* Whether the statement after `await this.#commitFn(this.id)` (resp.
\* #rollbackFn) runs: only when the awaited call did not throw. Before it, a
\* flag set whatever the call's outcome.
AfterAwaitAlways(ok) == TRUE
AfterAwait(ok) == ok

\* commitFn throws on an error string; otherwise #committed is set.
commitReturn ==
  \E call \in Pending("commit"), ok \in BOOLEAN :
    /\ Last(call)
    /\ inflight' = inflight \ {call}
    /\ committed' = IF AfterAwait(ok) THEN [committed EXCEPT ![call.tx] = TRUE]
                     ELSE committed
    /\ observed' = Failure("commit", ok)
    /\ UNCHANGED <<poolId, disposed, hasError, hasBuilder, transactions, nextTx,
                   rolledBack, txStreams>>
    /\ curFrame /\ dispFrame /\ EndedAtBoundary(call, ok)

rollback ==
  \E t \in Created :
    /\ IF EnsureActive(t)
       THEN /\ BelowMaxCalls
            /\ inflight' = Issued(Call("rollback", t, "user"))
            /\ NoFailure
       ELSE observed' = "notActive" /\ UNCHANGED inflight
    /\ UNCHANGED <<poolId, disposed, hasError, hasBuilder>>
    /\ txFrame /\ curFrame /\ dispFrame /\ poolFrame

rollbackReturn ==
  \E call \in Pending("rollback"), ok \in BOOLEAN :
    /\ Last(call)
    /\ call.by = "user"
    /\ inflight' = inflight \ {call}
    /\ rolledBack' = IF AfterAwait(ok) THEN [rolledBack EXCEPT ![call.tx] = TRUE]
                      ELSE rolledBack
    /\ observed' = Failure("rollback", ok)
    /\ UNCHANGED <<poolId, disposed, hasError, hasBuilder, transactions, nextTx,
                   committed, txStreams>>
    /\ curFrame /\ dispFrame /\ EndedAtBoundary(call, ok)

\* The cursors a disposal found tracked, with the caller of the disposal.
SeenBy(tracked, by) ==
  {[cur |-> r.cur, closed |-> r.closed, by |-> by] : r \in tracked}

\* The boundary call Transaction[Symbol.asyncDispose] awaits for an active
\* transaction: #rollbackFn (ffi.rollback); before it, #commitFn in its place.
DisposeCallCommit(t, by) == Call("commit", t, by)
DisposeCall(t, by) == Call("rollback", t, by)

\* Before Transaction[Symbol.dispose]: a synchronous dispose that also fires the
\* rollback of a transaction it found active, without awaiting it.
txDisposeRollingBack ==
  \E t \in Created :
    /\ SetWorld(ForceInactive(World, t))
    /\ inflight' = IF IsActive(t)
                   THEN Issued(DisposeCall(t, "txDispose"))
                   ELSE inflight
    /\ UNCHANGED <<poolId, disposed, hasError, hasBuilder,
                   transactions, nextTx, committed, nextCur>>
    /\ NoFailure /\ dispFrame /\ poolFrame

\* Transaction[Symbol.dispose]() called by the holder of the transaction.
txDispose ==
  \E t \in Created :
    /\ SetWorld(ForceInactive(World, t))
    /\ UNCHANGED <<poolId, disposed, hasError, hasBuilder,
                   inflight, transactions, nextTx, committed, nextCur>>
    /\ NoFailure /\ dispFrame /\ poolFrame

\* Transaction[Symbol.asyncDispose]() called by the holder of the transaction,
\* up to its await.
txAsyncDispose ==
  \E t \in Created :
    LET r == TxAsyncDispose(World, t)
    IN /\ r.issue => BelowMaxCalls
       /\ SetWorld(r.w)
       /\ inflight' = IF r.issue
                      THEN Issued(DisposeCall(t, "txDispose"))
                      ELSE inflight
       /\ nRollbackByDispose' = IF r.issue
                                THEN [nRollbackByDispose EXCEPT ![t] = @ + 1]
                                ELSE nRollbackByDispose
       /\ trackedAtRollback' = SeenBy(r.tracked, "txDispose")
       /\ UNCHANGED <<poolId, disposed, hasError, hasBuilder,
                      transactions, nextTx, committed, nextCur,
                      dispMode, dispPc, dispTxs, nPoolRelease, nDisconnect,
                      startHadActiveTx>>
       /\ NoFailure /\ poolFrame

\* Transaction[Symbol.asyncDispose] resumes after `await this.#rollbackFn`; a
\* failed rollback is swallowed.
txAsyncDisposeReturn ==
  \E call \in Pending("rollback"), ok \in BOOLEAN :
    /\ Last(call)
    /\ call.by = "txDispose"
    /\ inflight' = inflight \ {call}
    /\ observed' = Failure("rollback", ok)
    /\ rolledBack' = [rolledBack EXCEPT ![call.tx] = TRUE]
    /\ UNCHANGED <<poolId, disposed, hasError, hasBuilder,
                   transactions, nextTx, committed, txStreams>>
    /\ curFrame /\ dispFrame /\ EndedAtBoundary(call, ok)

\* QueryStream._onClose called with a callback of the caller's own.
onClose ==
  \E c \in 1..(nextCur - 1), k \in CbIds, reenter \in BOOLEAN :
    /\ \A key \in DOMAIN cbInvocations[c] : key.id # k
    /\ SetWorld(OnClose(World, c, UserCallback(k, reenter)))
    /\ UNCHANGED <<poolId, disposed, hasError, hasBuilder,
                   inflight, transactions, nextTx, committed, nextCur>>
    /\ NoFailure /\ dispFrame /\ poolFrame

\* QueryStream.close called by the consumer.
streamClose ==
  \E c \in 1..(nextCur - 1) :
    /\ SetWorld(StreamClose(World, c))
    /\ observed' = Failure("streamClose", ~CloseThrows(World, c))
    /\ UNCHANGED <<poolId, disposed, hasError, hasBuilder,
                   inflight, transactions, nextTx, committed, nextCur>>
    /\ dispFrame /\ poolFrame

\* ---- QueryStream consumers (stream.ts) ----

Iters == 1..MaxIter
NoIter == [cur |-> 0, kind |-> "none", pc |-> "new", fetched |-> FALSE,
           cancelled |-> FALSE, finalized |-> FALSE]

\* #fetchNext's first line: `if (this.#done || this.#closed) return null`.
\* Before it, a #fetchNext without that line.
FetchGuardNone(c) == FALSE
FetchGuard(c) == done[c] \/ curClosed[c]

\* The `finally { this.close() }` of the async iterator.
Finally(w, c) == StreamClose(w, c)

iterFrame ==
  /\ UNCHANGED <<poolId, disposed, hasError, hasBuilder, inflight,
                 transactions, nextTx, committed, nextCur, conv, libVars, ended>>
  /\ dispFrame /\ UNCHANGED poolVars

\* Consumer s is a new consumer of cursor c of the given kind, or one of that
\* kind that holds a row and asks for the next one.
Asks(s, c, kind) ==
  /\ c \in 1..(nextCur - 1)
  /\ \/ /\ iters[s].kind = "none"
        /\ \A r \in Iters : r < s => iters[r].kind # "none"
     \/ /\ iters[s].kind = kind /\ iters[s].cur = c
        /\ iters[s].pc = "suspended"

\* The consumer has run to its end: the stream is marked done and closed.
Ends(s, c, kind, w) ==
  /\ done' = [done EXCEPT ![c] = TRUE]
  /\ SetWorld(w)
  /\ observed' = Failure("streamClose", ~CloseThrows(World, c))
  /\ iters' = [iters EXCEPT ![s] = [@ EXCEPT !.cur = c, !.kind = kind,
                                               !.pc = "ended"]]

\* The consumer calls ffi.streamNext and awaits it.
Fetches(s, c, kind) ==
  /\ iters' = [iters EXCEPT ![s] = [@ EXCEPT !.cur = c, !.kind = kind,
                                               !.pc = "fetching",
                                               !.fetched = TRUE]]
  /\ NoFailure
  /\ UNCHANGED <<done, streams, curClosed, onCloseCallbacks, closeThrows,
                 cbInvocations, nStreamClose, txStreams, rolledBack>>

\* next() of the async iterator (a for-await loop, toArray, map, filter,
\* reduce, pipeTo): `while (!this.#done)`, then #fetchNext up to its await.
iterNext ==
  \E s \in Iters, c \in CurIds :
    /\ Asks(s, c, "iter")
    /\ IF done[c] \/ FetchGuard(c)
       THEN Ends(s, c, "iter", Finally(World, c))
       ELSE Fetches(s, c, "iter")
    /\ iterFrame

\* pull() of the ReadableStream returned by toReadableStream, up to the await
\* in #fetchNext.
rsPull ==
  \E s \in Iters, c \in CurIds :
    /\ Asks(s, c, "rs")
    /\ IF FetchGuard(c)
       THEN Ends(s, c, "rs", StreamClose(World, c))
       ELSE Fetches(s, c, "rs")
    /\ iterFrame

\* pull() resumes with a row or with null on a ReadableStream that cancel()
\* has closed: controller.enqueue, resp. controller.close, throws, and
\* the self.close() after controller.close() is not reached.
PullAfterCancel(s, c, out) ==
  /\ iters' = [iters EXCEPT ![s].pc = "ended"]
  /\ done' = IF out = "null" THEN [done EXCEPT ![c] = TRUE] ELSE done
  /\ observed' = "controllerClosed"
  /\ UNCHANGED <<streams, curClosed, onCloseCallbacks, closeThrows,
                 cbInvocations, nStreamClose, txStreams, rolledBack>>

\* ffi.streamNext returned: a row is yielded (enqueued), null ends the
\* consumer, and a payload with __error makes #fetchNext throw; the iterator's
\* finally closes the stream then, and an error thrown by that close() takes
\* the place of the stream error; pull() only rejects, which errors the
\* ReadableStream unless cancel() has closed it.
streamNextReturn ==
  \E s \in Iters, out \in {"row", "null", "error"} :
    LET c == iters[s].cur
        kind == iters[s].kind
    IN /\ iters[s].pc = "fetching"
       /\ CASE out = "error" ->
                 /\ iters' = [iters EXCEPT ![s].pc = IF iters[s].cancelled
                                                      THEN "ended"
                                                      ELSE "errored"]
                 /\ observed' = IF kind = "iter" /\ CloseThrows(World, c)
                                 THEN "streamClose" ELSE "streamNext"
                 /\ SetWorld(IF kind = "iter" THEN Finally(World, c) ELSE World)
                 /\ UNCHANGED done
            [] out # "error" /\ iters[s].cancelled ->
                 PullAfterCancel(s, c, out)
            [] out = "row" /\ ~iters[s].cancelled ->
                 /\ iters' = [iters EXCEPT ![s].pc = "suspended"]
                 /\ NoFailure
                 /\ UNCHANGED <<done, streams, curClosed, onCloseCallbacks,
                                closeThrows, cbInvocations, nStreamClose,
                                txStreams, rolledBack>>
            [] out = "null" /\ ~iters[s].cancelled ->
                 Ends(s, c, kind,
                      IF kind = "iter" THEN Finally(World, c)
                      ELSE StreamClose(World, c))
       /\ iterFrame

\* The consumer leaves its for-await loop early (break, return, throw): the
\* iterator's return() runs the finally.
iterBreak ==
  \E s \in Iters :
    LET c == iters[s].cur
    IN /\ iters[s].kind = "iter" /\ iters[s].pc = "suspended"
       /\ SetWorld(Finally(World, c))
       /\ observed' = Failure("streamClose", ~CloseThrows(World, c))
       /\ iters' = [iters EXCEPT ![s].pc = "ended"]
       /\ UNCHANGED done
       /\ iterFrame

\* cancel() of the ReadableStream, on a stream that holds a row or whose
\* pull() is awaiting ffi.streamNext: the stream is closed and self.close()
\* called at once; the pending pull() resumes later. (On a ReadableStream that
\* is closed or errored already, cancel does not reach this function.)
rsCancel ==
  \E s \in Iters :
    LET c == iters[s].cur
    IN /\ iters[s].kind = "rs" /\ iters[s].pc \in {"suspended", "fetching"}
       /\ ~iters[s].cancelled
       /\ SetWorld(StreamClose(World, c))
       /\ observed' = Failure("streamClose", ~CloseThrows(World, c))
       /\ iters' = [iters EXCEPT ![s].cancelled = TRUE,
                                 ![s].pc = IF @ = "suspended" THEN "ended" ELSE @]
       /\ UNCHANGED done
       /\ iterFrame

\* ---- MssqlConnection disposal (connection.ts) ----

ActiveTxs == {t \in Created : IsActive(t)}

cmdFrame == UNCHANGED <<poolId, hasError, hasBuilder,
                        transactions, nextTx, committed, nextCur>>

\* The pc of #cleanup after tx._dispose() was called on a transaction: suspended
\* on the rollback it issued, or resuming at the next loop iteration; before it,
\* the pc of a #cleanup that does not await tx._dispose().
CleanupPcNoAwait(active) == "loop"
CleanupPc(active) == IF active THEN "awaitTx" ELSE "loop"

\* #cleanup from the head of txs to its next await (or to its end), run on the
\* streams and callbacks as w has them.
CleanupFrom(w, txs) ==
  IF txs = <<>>
  THEN /\ SetWorld(CloseEach([w EXCEPT !.conn = {}], w.conn))
       /\ dispTxs' = <<>>
       /\ dispPc' = "cleaned"
       /\ UNCHANGED inflight /\ implicitFrame
  ELSE LET t == Head(txs)
           r == TxAsyncDispose(w, t)
       IN /\ SetWorld(r.w)
          /\ dispTxs' = Tail(txs)
          /\ dispPc' = CleanupPc(r.issue)
          /\ inflight' = IF r.issue
                         THEN Issued(DisposeCall(t, "cleanup"))
                         ELSE inflight
          /\ nRollbackByDispose' = IF r.issue
                                   THEN [nRollbackByDispose EXCEPT ![t] = @ + 1]
                                   ELSE nRollbackByDispose
          /\ trackedAtRollback' = SeenBy(r.tracked, "cleanup")
Cleanup(txs) == CleanupFrom(World, txs)

\* close(), disconnect() and [Symbol.asyncDispose]() from the #disposed guard to
\* the first await inside #cleanup.
AsyncStartFrom(w, mode) ==
  /\ disposed' = TRUE
  /\ dispMode' = mode
  /\ startHadActiveTx' = (ActiveTxs # {})
  /\ transactions' = <<>>
  /\ CleanupFrom(w, transactions)
  /\ UNCHANGED <<poolId, hasError, hasBuilder, nextTx,
                 committed, nextCur, nPoolRelease, nDisconnect>>
  /\ NoFailure /\ poolFrame
AsyncStart(mode) == AsyncStartFrom(World, mode)

\* A disposal call that finds #disposed set.
LateCall ==
  /\ disposed
  /\ observed' = "disposed"
  /\ UNCHANGED <<poolId, disposed, hasError, hasBuilder,
                 inflight, dispMode, dispPc, dispTxs, nPoolRelease, nDisconnect,
                 startHadActiveTx>>
  /\ implicitFrame /\ txFrame /\ curFrame /\ poolFrame

close == (~disposed /\ AsyncStart("close")) \/ LateCall
disconnect == close
asyncDispose == (~disposed /\ AsyncStart("asyncDispose")) \/ LateCall

\* #cleanup resumes after `await tx._dispose()`.
cleanupResume ==
  /\ dispPc = "loop"
  /\ Cleanup(dispTxs)
  /\ UNCHANGED <<disposed, dispMode, nPoolRelease, nDisconnect,
                 startHadActiveTx>>
  /\ NoFailure /\ cmdFrame /\ poolFrame

\* Where #cleanup stands after the rollback awaited inside tx._dispose() has
\* returned: the catch in Transaction[Symbol.asyncDispose] (and the one around
\* tx._dispose()) swallows a failure, and the loop goes on. Before it, a
\* #cleanup that a failed rollback leaves by the exception.
ResumedUncaught(ok) == IF ok THEN "loop" ELSE "threw"
Resumed(ok) == "loop"

\* Transaction[Symbol.asyncDispose] resumes after `await this.#rollbackFn`; a
\* failed rollback is swallowed.
disposeRollbackReturn ==
  \E call \in Pending("rollback"), ok \in BOOLEAN :
    /\ Last(call)
    /\ call.by = "cleanup"
    /\ inflight' = inflight \ {call}
    /\ observed' = Failure("rollback", ok)
    /\ rolledBack' = [rolledBack EXCEPT ![call.tx] = TRUE]
    /\ dispPc' = IF dispPc = "awaitTx" THEN Resumed(ok) ELSE dispPc
    /\ UNCHANGED <<poolId, disposed, hasError, hasBuilder,
                   transactions, nextTx, committed, txStreams, dispMode, dispTxs,
                   nPoolRelease, nDisconnect, startHadActiveTx>>
    /\ implicitFrame /\ curFrame /\ EndedAtBoundary(call, ok)

\* The branch of [Symbol.asyncDispose] after `await this.#cleanup()`; before it,
\* the branch without its error-flag test, without its pool-owner test, and
\* with the hadActiveTx test of [Symbol.dispose].
AsyncReturnToPoolIgnoringError == poolId # 0
AsyncReturnToPoolIgnoringOwner == ~hasError
AsyncReturnToPoolUnlessTx == poolId # 0 /\ ~hasError /\ ~startHadActiveTx
AsyncReturnToPool == poolId # 0 /\ ~hasError

\* Whether the method that ran #cleanup hands the connection back to its pool:
\* close() has no such branch, [Symbol.asyncDispose]() has. Before it, close()
\* with the branch of [Symbol.asyncDispose]().
ReturnToPoolAnyMode(mode) == AsyncReturnToPool
ReturnToPool(mode) == mode = "asyncDispose" /\ AsyncReturnToPool

\* close() and [Symbol.asyncDispose]() after `await this.#cleanup()`.
terminal ==
  /\ dispPc = "cleaned"
  /\ dispPc' = "done"
  /\ IF ReturnToPool(dispMode)
     THEN nPoolRelease' = nPoolRelease + 1 /\ UNCHANGED nDisconnect
     ELSE nDisconnect' = nDisconnect + 1 /\ UNCHANGED nPoolRelease
  /\ UNCHANGED <<poolId, disposed, hasError, hasBuilder,
                 inflight, dispMode, dispTxs, startHadActiveTx>>
  /\ implicitFrame /\ NoFailure /\ txFrame /\ curFrame /\ poolFrame

\* #syncCleanup step 1 over txs: the transactions force-deactivated so far, and
\* whether one of them was active.
RECURSIVE ForceAll(_, _)
ForceAll(acc, txs) ==
  IF txs = <<>> THEN acc
  ELSE LET t == Head(txs)
       IN ForceAll([w |-> ForceInactive(acc.w, t),
                    hadActiveTx |-> acc.hadActiveTx \/ (~committed[t] /\ ~acc.w.rolledBack[t])],
                   Tail(txs))

\* The branch of [Symbol.dispose] after #syncCleanup; before it, the branch
\* without its hadActiveTx test.
SyncReturnToPoolIgnoringTx(hadActiveTx) == poolId # 0 /\ ~hasError
SyncReturnToPool(hadActiveTx) == poolId # 0 /\ ~hasError /\ ~hadActiveTx

\* [Symbol.dispose]() past its #disposed guard: #syncCleanup, then the release or
\* the disconnect.
DisposeBodyFrom(w0) ==
  LET r == ForceAll([w |-> w0, hadActiveTx |-> FALSE], transactions)
      w2 == CloseEach([r.w EXCEPT !.conn = {}], r.w.conn)
  IN /\ disposed' = TRUE
     /\ dispMode' = "dispose"
     /\ dispPc' = "done"
     /\ startHadActiveTx' = (ActiveTxs # {})
     /\ transactions' = <<>>
     /\ SetWorld(w2)
     /\ IF SyncReturnToPool(r.hadActiveTx)
        THEN nPoolRelease' = nPoolRelease + 1 /\ UNCHANGED nDisconnect
        ELSE nDisconnect' = nDisconnect + 1 /\ UNCHANGED nPoolRelease
     /\ UNCHANGED <<poolId, hasError, hasBuilder, inflight,
                    nextTx, committed, nextCur, dispTxs>>
     /\ implicitFrame /\ NoFailure /\ poolFrame
DisposeBody == DisposeBodyFrom(World)

\* [Symbol.dispose](); before it, the method without its #disposed guard.
DisposeUnguarded == DisposeBody \/ LateCall
dispose == (~disposed /\ DisposeBody) \/ LateCall

\* ---- Pool registry (createPool, MssqlPool.close; store_pool / remove_pool) ----

Servers == {"s1", "s2"}
PoolMaxes == {5, 10}
Configs == [server : Servers, database : {"db"}, poolMax : PoolMaxes]
Keys == {<<s, "db">> : s \in Servers}
PoolIds == 1..MaxHandles

\* NormalizedConfig::dedup_key(): every field but the pool-tuning ones; before
\* it, a key that keeps them.
DedupKeyWithTuning(cfg) == <<cfg.server, cfg.database, cfg.poolMax>>
DedupKey(cfg) == <<cfg.server, cfg.database>>

\* seq without its i-th element.
Without(seq, i) == SubSeq(seq, 1, i - 1) \o SubSeq(seq, i + 1, Len(seq))

INVALID_HANDLE == 0
NoConnect == [handle |-> 0, result |-> "none", acquired |-> INVALID_HANDLE,
              connection |-> FALSE, lastError |-> FALSE, message |-> "none"]

NoPool == [key |-> <<>>, refCount |-> 0, poolMax |-> 0, destroyed |-> 0]

\* store_pool(): the registry after a pool for cfg is stored, and the id returned.
StorePool(cfg) ==
  LET key == DedupKey(cfg)
      hit == \E k \in DOMAIN poolDedup : k = key /\ poolDedup[k] # 0
  IN IF hit
     THEN [id |-> poolDedup[key],
           dedup |-> poolDedup,
           pools |-> [pools EXCEPT ![poolDedup[key]].refCount = @ + 1],
           next |-> nextPoolId]
     ELSE [id |-> nextPoolId,
           dedup |-> [k \in DOMAIN poolDedup \cup {key} |->
                        IF k = key THEN nextPoolId ELSE poolDedup[k]],
           pools |-> [pools EXCEPT ![nextPoolId] =
                        [key |-> key, refCount |-> 1, poolMax |-> cfg.poolMax,
                         destroyed |-> 0]],
           next |-> nextPoolId + 1]

\* remove_pool(): decrement, and destroy the pool when the count reaches 0.
RemovePool(id) ==
  IF pools[id].refCount = 0
  THEN [dedup |-> poolDedup, pools |-> pools]
  ELSE IF pools[id].refCount = 1
       THEN [dedup |-> [poolDedup EXCEPT ![pools[id].key] = 0],
             pools |-> [pools EXCEPT ![id].refCount = 0, ![id].destroyed = @ + 1]]
       ELSE [dedup |-> poolDedup,
             pools |-> [pools EXCEPT ![id].refCount = @ - 1]]

InCreation == {cfg \in Configs : creating[cfg] > 0}

RECURSIVE Sum(_, _)
Sum(f, S) ==
  IF S = {} THEN 0
  ELSE LET x == CHOOSE y \in S : TRUE
       IN f[x] + Sum(f, S \ {x})

connFrame == UNCHANGED <<connVars, auxVars>>
regFrame == UNCHANGED reg

\* The store_pool calls between their two registry accesses.
MidStores == Cardinality({i \in DOMAIN reg.mid : reg.mid[i].kind = "store"})

\* ---- the FFI singleton (ffi/resolve.ts) ----

FfiCallers == 1..MaxCallers
Runtimes == {"deno", "node"}
\* A call that awaits getFfi(): getFfi itself, createPool or closeAll, with
\* the configuration createPool was given.
NoCaller == [pc |-> "idle", promise |-> 0, op |-> "none", cfg |-> <<>>]

\* Module evaluation: on Deno the initialisation is started eagerly and has run
\* to its first await: resolveLibraryPath found the library and
\* createRuntimeFFI has been called, or it threw and the promise is rejected;
\* elsewhere _ffiPromise is null.
FfiAt(runtime, found) ==
  [runtime |-> runtime,
   promise |-> IF runtime = "deno" THEN 1 ELSE 0,
   promises |-> IF runtime # "deno" THEN <<>>
                ELSE IF found THEN <<"creating">> ELSE <<"rejected">>,
   created |-> IF runtime = "deno" /\ found THEN 1 ELSE 0,
   loaded |-> FALSE,
   callers |-> [c \in FfiCallers |-> NoCaller]]
NoFfi == FfiAt("node", TRUE)

\* The singleton once a pool or a connection exists: createPool and connect
\* got it from getFfi().
FfiReady ==
  [NoFfi EXCEPT !.promise = 1, !.promises = <<"resolved">>, !.created = 1]

ffiFrame == UNCHANGED <<connVars, poolVars, done, iters, conv, execRes, ended>>

\* `if (!_ffiPromise)`; resp. a test that never finds the promise.
CachedNever(promise) == FALSE
Cached(promise) == promise # 0

\* The caller is in no call that awaits getFfi() or, in createPool, the token
\* provider.
Free(c) ==
  /\ ffi.callers[c].pc # "awaiting"
  /\ ffi.callers[c].op \notin {"createPool", "closeAll"}

\* getFfi(): the caller gets _ffiPromise, which the first call sets to the
\* promise of a newly started initialisation.
GetFfi(c, op, cfg) ==
  /\ Free(c)
  /\ IF Cached(ffi.promise)
     THEN ffi' = [ffi EXCEPT !.callers[c] = [pc |-> "awaiting", promise |-> ffi.promise,
                                             op |-> op, cfg |-> cfg]]
     ELSE /\ Len(ffi.promises) < MaxPromises
          /\ ffi' = [ffi EXCEPT !.promise = Len(ffi.promises) + 1,
                                !.promises = Append(ffi.promises, "resolving"),
                                !.callers[c] = [pc |-> "awaiting",
                                                promise |-> Len(ffi.promises) + 1,
                                                op |-> op, cfg |-> cfg]]

getFfi == \E c \in FfiCallers : GetFfi(c, "getFfi", <<>>) /\ ffiFrame

\* The initialisation after `await getNodeBunResolutionContext(...)`:
\* resolveLibraryPath throws, or createRuntimeFFI is called.
ffiResolve ==
  \E p \in 1..MaxPromises, ok \in BOOLEAN :
    /\ p <= Len(ffi.promises) /\ ffi.promises[p] = "resolving"
    /\ ffi' = IF ok THEN [ffi EXCEPT !.promises[p] = "creating", !.created = @ + 1]
              ELSE [ffi EXCEPT !.promises[p] = "rejected"]
    /\ ffiFrame

\* createRuntimeFFI settled.
ffiCreated ==
  \E p \in 1..MaxPromises, ok \in BOOLEAN :
    /\ p <= Len(ffi.promises) /\ ffi.promises[p] = "creating"
    /\ ffi' = [ffi EXCEPT !.promises[p] = IF ok THEN "resolved" ELSE "rejected"]
    /\ ffiFrame

\* A caller's `await getFfi()` resumes with the outcome of its promise. In
\* createPool a rejection ends the call, and otherwise parseConnection runs and
\* the call is at `await resolveTokenProvider(config)`.
Settled(c) ==
  /\ ffi.callers[c].pc = "awaiting"
  /\ ffi.promises[ffi.callers[c].promise] \in {"resolved", "rejected"}
Resolved(c) == ffi.promises[ffi.callers[c].promise] = "resolved"
ffiSettle ==
  \E c \in FfiCallers :
    /\ Settled(c)
    /\ ffi.callers[c].op \in {"getFfi", "createPool"}
    /\ ffi' = IF Resolved(c)
              THEN [ffi EXCEPT !.callers[c].pc = "got"]
              ELSE IF ffi.callers[c].op = "createPool"
                   THEN [ffi EXCEPT !.callers[c] = NoCaller]
                   ELSE [ffi EXCEPT !.callers[c].pc = "failed"]
    /\ ffiFrame

\* loadLibrary(path): a new backend is created and its promise replaces
\* the singleton.
loadLibrary ==
  /\ Len(ffi.promises) < MaxPromises
  /\ ffi' = [ffi EXCEPT !.promise = Len(ffi.promises) + 1,
                        !.promises = Append(ffi.promises, "creating"),
                        !.created = @ + 1,
                        !.loaded = TRUE]
  /\ ffiFrame

NextFfi == getFfi \/ ffiResolve \/ ffiCreated \/ ffiSettle \/ loadLibrary

\* The createPool calls that have not reached ffi.poolCreate.
Starting == Cardinality({c \in FfiCallers : ffi.callers[c].op = "createPool"})

poolFfiFrame == UNCHANGED <<connVars, done, iters, conv, execRes, ended>>

\* createPool up to `await getFfi()`.
createPool ==
  \E c \in FfiCallers, cfg \in Configs :
    /\ Len(handles) + Sum(creating, Configs) + MidStores + Starting < MaxHandles
    /\ Starting < MaxStarting
    /\ GetFfi(c, "createPool", <<cfg>>)
    /\ lastConnect' = NoConnect
    /\ UNCHANGED <<poolDedup, pools, nextPoolId, creating, handles>>
    /\ poolFfiFrame /\ regFrame

\* createPool after `await resolveTokenProvider(config)`: the token provider
\* of the configuration threw, or ffi.poolCreate(configJson) is called.
createPoolCall ==
  \E c \in FfiCallers, ok \in BOOLEAN :
    /\ ffi.callers[c].op = "createPool" /\ ffi.callers[c].pc = "got"
    /\ ffi' = [ffi EXCEPT !.callers[c] = NoCaller]
    /\ creating' = IF ok THEN [creating EXCEPT ![ffi.callers[c].cfg[1]] = @ + 1]
                   ELSE creating
    /\ lastConnect' = NoConnect
    /\ UNCHANGED <<poolDedup, pools, nextPoolId, handles>>
    /\ poolFfiFrame /\ regFrame

\* ffi.poolCreate returns: INVALID_HANDLE throws, a pool id becomes an MssqlPool.
createPoolReturn ==
  \E cfg \in InCreation, ok \in BOOLEAN :
    /\ creating' = [creating EXCEPT ![cfg] = @ - 1]
    /\ lastConnect' = NoConnect
    /\ IF ok
       THEN LET r == StorePool(cfg)
            IN /\ poolDedup' = r.dedup
               /\ pools' = r.pools
               /\ nextPoolId' = r.next
               /\ handles' = Append(handles, [poolId |-> r.id, closed |-> FALSE,
                                              config |-> cfg,
                                              poolCloseCalls |-> 0, acquiring |-> <<>>])
       ELSE UNCHANGED <<poolDedup, pools, nextPoolId, handles>>
    /\ connFrame /\ regFrame

\* MssqlPool.close(): the #closed guard, then ffi.poolClose; before it, the
\* method without the guard.
PoolCloseUnguarded(h) ==
  LET r == RemovePool(handles[h].poolId)
  IN /\ handles' = [handles EXCEPT ![h].closed = TRUE, ![h].poolCloseCalls = @ + 1]
     /\ poolDedup' = r.dedup
     /\ pools' = r.pools
     /\ lastConnect' = NoConnect
     /\ UNCHANGED <<nextPoolId, creating>>
PoolClose(h) ==
  IF handles[h].closed
  THEN /\ lastConnect' = [NoConnect EXCEPT !.handle = h, !.result = "closed"]
       /\ UNCHANGED <<poolDedup, pools, nextPoolId, creating, handles>>
  ELSE LET r == RemovePool(handles[h].poolId)
       IN /\ handles' = [handles EXCEPT ![h].closed = TRUE,
                                         ![h].poolCloseCalls = @ + 1]
          /\ poolDedup' = r.dedup
          /\ pools' = r.pools
          /\ lastConnect' = NoConnect
          /\ UNCHANGED <<nextPoolId, creating>>

\* close(), [Symbol.dispose]() and [Symbol.asyncDispose]() of an MssqlPool.
poolClose == \E h \in DOMAIN handles : PoolClose(h) /\ connFrame /\ regFrame

\* ffi.poolAcquire finds no pool under a destroyed id and may fail (exhaustion,
\* connection failure) on a live one.
PoolAcquire(alive, ok) == IF ok /\ alive THEN 1 ELSE INVALID_HANDLE

\* The poolAcquire calls in flight, of all handles.
RECURSIVE Acquiring(_)
Acquiring(h) == IF h = 0 THEN 0 ELSE Len(handles[h].acquiring) + Acquiring(h - 1)

\* The code of connect() after the await: the INVALID_HANDLE test throws the
\* boundary's last error (or a fixed text when there is none), otherwise a
\* pooled MssqlConnection is built around connId; lastError tells whether
\* ffi.lastError has a message. Before it, the method
\* without the test.
ConnectUnchecked(h, connId, lastError) ==
  [handle |-> h, result |-> "ok", acquired |-> connId,
   connection |-> TRUE, lastError |-> lastError, message |-> "none"]
Connect(h, connId, lastError) ==
  IF connId = INVALID_HANDLE
  THEN [handle |-> h, result |-> "failed", acquired |-> connId,
        connection |-> FALSE, lastError |-> lastError,
        message |-> IF lastError THEN "lastError" ELSE "default"]
  ELSE [handle |-> h, result |-> "ok", acquired |-> connId,
        connection |-> TRUE, lastError |-> lastError, message |-> "none"]

\* MssqlPool.connect() up to `await this.#ffi.poolAcquire(this.#poolId)`:
\* #ensureOpen, then the call, which reaches a pool that exists or has been
\* destroyed.
poolConnect ==
  \E h \in DOMAIN handles :
    /\ ~handles[h].closed
    /\ Acquiring(Len(handles)) < MaxAcquires
    /\ handles' = [handles EXCEPT ![h].acquiring =
                     Append(@, pools[handles[h].poolId].refCount > 0)]
    /\ lastConnect' = NoConnect
    /\ UNCHANGED <<poolDedup, pools, nextPoolId, creating>>
    /\ connFrame /\ regFrame

\* connect() after the await, whatever happened to the handle meanwhile.
poolConnectReturn ==
  \E h \in DOMAIN handles, ok \in BOOLEAN, lastError \in BOOLEAN :
    \E i \in DOMAIN handles[h].acquiring :
      /\ handles' = [handles EXCEPT ![h].acquiring = Without(@, i)]
      /\ lastConnect' = Connect(h, PoolAcquire(handles[h].acquiring[i], ok), lastError)
      /\ UNCHANGED <<poolDedup, pools, nextPoolId, creating>>
      /\ connFrame /\ regFrame

\* ---- Pool registry under concurrent calls (store_pool / remove_pool) ----

\* The registry is free for an update: no call holds its lock. Before it, a
\* registry without mutual exclusion.
LockFreeAlways == TRUE
LockFree == ~reg.lock

NoReg == [lock |-> FALSE, mid |-> <<>>, removing |-> {}, closedAll |-> FALSE,
          opened |-> [p \in PoolIds |-> 0], closed |-> [p \in PoolIds |-> 0]]

\* closeAll() up to `await getFfi()`.
closeAll ==
  \E c \in FfiCallers :
    /\ GetFfi(c, "closeAll", <<>>)
    /\ lastConnect' = NoConnect
    /\ UNCHANGED <<poolDedup, pools, nextPoolId, creating, handles>>
    /\ poolFfiFrame /\ regFrame

\* mssql_close_all(): every pool of the registry is destroyed and its key
\* deregistered.
CloseAllPools ==
  [p \in PoolIds |-> IF pools[p].refCount > 0
                     THEN [pools[p] EXCEPT !.refCount = 0, !.destroyed = @ + 1]
                     ELSE pools[p]]

\* closeAll() after the await: a rejection is thrown, and otherwise
\* ffi.closeAll() is called, which leaves every MssqlPool object as it is.
closeAllReturn ==
  \E c \in FfiCallers :
    /\ Settled(c) /\ ffi.callers[c].op = "closeAll"
    /\ ffi' = [ffi EXCEPT !.callers[c] = NoCaller]
    /\ IF Resolved(c)
       THEN /\ LockFree
            /\ pools' = CloseAllPools
            /\ poolDedup' = [k \in DOMAIN poolDedup |-> 0]
            /\ reg' = [reg EXCEPT !.closedAll = TRUE]
       ELSE UNCHANGED <<pools, poolDedup, reg>>
    /\ lastConnect' = NoConnect
    /\ UNCHANGED <<nextPoolId, creating, handles>>
    /\ poolFfiFrame

\* No call of the boundary is in progress and no continuation is due: the
\* event loop is empty. A createPool call may be waiting at
\* `await resolveTokenProvider(config)` for a token provider that keeps
\* nothing in the event loop.
Quiescent ==
  /\ \A c \in FfiCallers :
       \/ Free(c)
       \/ ffi.callers[c].op = "createPool" /\ ffi.callers[c].pc = "got"
  /\ \A p \in DOMAIN ffi.promises : ffi.promises[p] \in {"resolved", "rejected"}
  /\ \A cfg \in Configs : creating[cfg] = 0
  /\ Acquiring(Len(handles)) = 0
  /\ reg.mid = <<>> /\ reg.removing = {}
  /\ inflight = {}

\* The exit handler that registerExitHandler installed once createRuntimeFFI had
\* returned: at `beforeExit` (the event loop is empty) it calls ffi.closeAll();
\* a handler disabled with disableExitHandler() does nothing.
exitHandler ==
  /\ \E p \in DOMAIN ffi.promises : ffi.promises[p] = "resolved"
  /\ Quiescent
  /\ pools' = CloseAllPools
  /\ poolDedup' = [k \in DOMAIN poolDedup |-> 0]
  /\ reg' = [reg EXCEPT !.closedAll = TRUE]
  /\ lastConnect' = NoConnect
  /\ UNCHANGED <<nextPoolId, creating, handles>>
  /\ connFrame

\* MssqlPool.close() past its #closed guard: #closed set, ffi.poolClose called
\* and not yet at the registry.
poolCloseCall ==
  \E h \in DOMAIN handles :
    /\ ~handles[h].closed
    /\ handles' = [handles EXCEPT ![h].closed = TRUE, ![h].poolCloseCalls = @ + 1]
    /\ reg' = [reg EXCEPT !.removing = @ \cup {h}]
    /\ lastConnect' = NoConnect
    /\ UNCHANGED <<poolDedup, pools, nextPoolId, creating>>
    /\ connFrame

\* store_pool(), first access: the lock taken and POOL_DEDUP looked up.
storeLookup ==
  \E cfg \in InCreation :
    /\ LockFree
    /\ creating' = [creating EXCEPT ![cfg] = @ - 1]
    /\ reg' = [reg EXCEPT !.lock = TRUE,
                          !.mid = Append(@, [kind |-> "store", cfg |-> cfg,
                                             val |-> poolDedup[DedupKey(cfg)],
                                             prev |-> 0])]
    /\ lastConnect' = NoConnect
    /\ UNCHANGED <<poolDedup, pools, nextPoolId, handles>>
    /\ connFrame

\* store_pool(), second access: on a dedup hit ref_count incremented and the
\* existing id returned, else a new pool registered with count 1; the lock
\* released, and createPool wraps the id in an MssqlPool.
storeApply ==
  \E i \in DOMAIN reg.mid :
    LET op == reg.mid[i]
        id == IF op.val # 0 THEN op.val ELSE nextPoolId
    IN /\ op.kind = "store"
       /\ IF op.val # 0
          THEN /\ pools' = [pools EXCEPT ![id].refCount = @ + 1]
               /\ UNCHANGED <<poolDedup, nextPoolId>>
          ELSE /\ pools' = [pools EXCEPT ![id] =
                              [key |-> DedupKey(op.cfg), refCount |-> 1,
                               poolMax |-> op.cfg.poolMax, destroyed |-> 0]]
               /\ poolDedup' = [poolDedup EXCEPT ![DedupKey(op.cfg)] = id]
               /\ nextPoolId' = nextPoolId + 1
       /\ handles' = Append(handles, [poolId |-> id, closed |-> FALSE,
                                      config |-> op.cfg, poolCloseCalls |-> 0, acquiring |-> <<>>])
       /\ reg' = [reg EXCEPT !.lock = FALSE, !.mid = Without(@, i),
                             !.opened[id] = @ + 1]
       /\ lastConnect' = NoConnect
       /\ UNCHANGED creating
       /\ connFrame

\* remove_pool(), first access: the lock taken and ref_count decremented.
removeDecrement ==
  \E h \in reg.removing :
    LET id == handles[h].poolId
    IN /\ LockFree
       /\ pools' = [pools EXCEPT ![id].refCount = IF @ > 0 THEN @ - 1 ELSE 0]
       /\ reg' = [reg EXCEPT !.lock = TRUE, !.removing = @ \ {h},
                             !.mid = Append(@, [kind |-> "remove",
                                                cfg |-> handles[h].config,
                                                val |-> id,
                                                prev |-> pools[id].refCount])]
       /\ lastConnect' = NoConnect
       /\ UNCHANGED <<poolDedup, nextPoolId, creating, handles>>
       /\ connFrame

\* remove_pool(), second access: the pool destroyed and its key deregistered if
\* the count reached 0; the lock released.
removeDestroy ==
  \E i \in DOMAIN reg.mid :
    LET op == reg.mid[i]
    IN /\ op.kind = "remove"
       /\ IF op.prev = 1
          THEN /\ pools' = [pools EXCEPT ![op.val].destroyed = @ + 1]
               /\ poolDedup' = [poolDedup EXCEPT ![pools[op.val].key] = 0]
          ELSE UNCHANGED <<pools, poolDedup>>
       /\ reg' = [reg EXCEPT !.lock = FALSE, !.mid = Without(@, i),
                             !.closed[op.val] = @ + 1]
       /\ lastConnect' = NoConnect
       /\ UNCHANGED <<nextPoolId, creating, handles>>
       /\ connFrame

\* ---- specifications ----

InitConn ==
  /\ poolId \in {0, 1}
  /\ disposed = FALSE
  /\ hasError = FALSE
  /\ transactions = <<>>
  /\ streams = {}
  /\ hasBuilder = FALSE
  /\ nextTx = 1
  /\ committed = [t \in TxIds |-> FALSE]
  /\ rolledBack = [t \in TxIds |-> FALSE]
  /\ txStreams = [t \in TxIds |-> {}]
  /\ nextCur = 1
  /\ curClosed = [c \in CurIds |-> FALSE]
  /\ onCloseCallbacks = [c \in CurIds |-> <<>>]
  /\ cbInvocations = [c \in CurIds |-> <<>>]
  /\ inflight = {}
  /\ observed = "none"
  /\ dispMode = "none"
  /\ dispPc = "idle"
  /\ dispTxs = <<>>
  /\ nPoolRelease = 0
  /\ nDisconnect = 0
  /\ nStreamClose = [c \in CurIds |-> 0]
  /\ startHadActiveTx = FALSE
  /\ nRollbackByDispose = [t \in TxIds |-> 0]
  /\ trackedAtRollback = {}

\* ---- MssqlPool pool-level calls (pool.ts) ----

PoolCalls == 1..MaxPoolCalls

\* A pool-level call with the MssqlConnection its connect() returned: the
\* MssqlPool it was made on and its method; where the method stands; its
\* ffi.poolAcquire calls and whether the pool existed when it was called; the
\* transaction of the caller's connection that pool.queryStream was given in
\* its opts (0: none); the boundary call in flight on the connection and the
\* ones the method makes after it; the cursor of its PooledQueryStream; and of
\* the connection
\* #disposed, #hasError, the disposal method and where it stands, and the
\* ffi.poolRelease and ffi.disconnect calls for its handle.
NoConv == [h |-> 0, kind |-> "none", pc |-> "idle", acquires |-> 0,
           alive |-> FALSE, tx |-> 0, call |-> "none", rest |-> 0, cur |-> 0,
           disposed |-> FALSE, hasError |-> FALSE, mode |-> "none",
           dispPc |-> "idle", nPoolRelease |-> 0, nDisconnect |-> 0]

\* The convenience methods: pool.query / queryFirst / scalar / sql ("query"),
\* pool.querySingle, pool.execute and pool.exec.
CommandKinds == {"query", "querySingle", "execute", "exec"}

\* The boundary call a pool-level method of this kind makes on its connection.
BoundaryCall(kind) ==
  IF kind \in {"querySingle", "filestreamAvailable"} THEN "query" ELSE kind

\* MssqlPool.#ensureOpen of the handle the call is made on.
PoolOpen(h) == ~handles[h].closed

\* What a pool-level action leaves alone: the connection a caller holds
\* directly, the consumers, the registry.
callFrame ==
  /\ UNCHANGED <<poolId, disposed, hasError, transactions, hasBuilder, nextTx,
                 committed, inflight, dispMode, dispPc, dispTxs, nPoolRelease,
                 nDisconnect, startHadActiveTx, nRollbackByDispose,
                 trackedAtRollback>>
  /\ UNCHANGED <<done, libVars, ended>>
  /\ UNCHANGED <<poolDedup, pools, nextPoolId, creating, handles, reg>>
convFrame == callFrame /\ UNCHANGED iters
worldFrame ==
  UNCHANGED <<streams, curClosed, onCloseCallbacks, closeThrows,
              cbInvocations, nStreamClose, txStreams, rolledBack>>

\* The first step of a pool-level call on handle h: this.connect(), which
\* throws on a closed MssqlPool, and the method with it, and otherwise calls
\* ffi.poolAcquire and runs up to the await of it; rest is the number of
\* boundary calls the method will make on its connection, tx the transaction
\* in the opts of pool.queryStream.
PoolCall(h, kind, rest, tx) ==
  /\ \E i \in PoolCalls :
       /\ conv[i].pc = "idle"
       /\ \A j \in PoolCalls : j < i => conv[j].pc # "idle"
       /\ conv' = [conv EXCEPT ![i] =
                     IF PoolOpen(h)
                     THEN [NoConv EXCEPT !.h = h, !.kind = kind,
                                         !.pc = "acquiring",
                                         !.acquires = @ + 1,
                                         !.alive = pools[handles[h].poolId].refCount > 0,
                                         !.rest = rest, !.tx = tx]
                     ELSE [NoConv EXCEPT !.h = h, !.kind = kind,
                                         !.pc = "refused"]]
  /\ observed' = IF PoolOpen(h) THEN "none" ELSE "poolClosed"
  /\ lastConnect' = NoConnect
  /\ UNCHANGED nextCur
  /\ worldFrame /\ convFrame

poolCommand ==
  \E h \in DOMAIN handles, kind \in CommandKinds : PoolCall(h, kind, 1, 0)

\* pool.queryStream, without a transaction in its opts or with one that the
\* caller began on its own connection; the cursors of the model are limited.
poolQueryStream ==
  \E h \in DOMAIN handles, tx \in {0} \cup Created :
    /\ nextCur + Cardinality({i \in PoolCalls :
                                 /\ conv[i].kind = "queryStream"
                                 /\ conv[i].pc \in {"acquiring", "command"}})
         <= MaxCur
    /\ PoolCall(h, "queryStream", 1, tx)

\* execute() of the PoolBulkInsertBuilder that pool.bulk(table) returned:
\* connect(), then cn.bulk(table) and execute() of that builder, which throws
\* without columns and calls ffi.bulkInsert once per chunk otherwise.
poolBulkExecute ==
  \E h \in DOMAIN handles, columns \in BOOLEAN,
     rows \in 0..MaxRows, batchSize \in 0..MaxRows :
    PoolCall(h, "bulkInsert", IF columns THEN Chunks(rows, batchSize) ELSE 0, 0)

\* pool.filestreamAvailable: connect(), then cn.filestreamAvailable, which
\* makes no boundary call without the local driver and up to two queries
\* with it.
poolFilestreamAvailable ==
  \E h \in DOMAIN handles, local \in BOOLEAN :
    PoolCall(h, "filestreamAvailable", IF local THEN 1 + 1 ELSE 0, 0)

\* What #ensureOpen(opts) of the command throws on the connection just
\* acquired, which is not disposed: the methods that take opts may be given
\* an aborted signal, tested first, or a transaction that is not active: the
\* one recorded for the call or, with none recorded, one of another
\* connection.
OptsThrows(kind, tx) ==
  IF kind \notin CommandKinds \cup {"queryStream"} THEN {"none"}
  ELSE IF tx = 0 THEN {"none", "aborted", "notActive"}
  ELSE IF IsActive(tx) THEN {"none", "aborted"}
  ELSE {"aborted", "notActive"}

\* poolAcquire returned: connect() throws on the invalid handle; otherwise the
\* method has its MssqlConnection and calls the command on it, which runs up
\* to the await of its first boundary call, or throws before it (#ensureOpen,
\* a bulk builder without columns), or returns before it (filestreamAvailable
\* without the local driver). pool.queryStream catches the throw and calls
\* cn.disconnect(), which runs to the await in close().
poolAcquireReturn ==
  \E i \in PoolCalls, ok \in BOOLEAN, lastError \in BOOLEAN :
    \E thrown \in OptsThrows(conv[i].kind, conv[i].tx) :
      LET r == Connect(conv[i].h, PoolAcquire(conv[i].alive, ok), lastError)
      IN /\ conv[i].pc = "acquiring"
         /\ lastConnect' = r
         /\ conv' = [conv EXCEPT ![i] =
                       IF ~r.connection THEN [@ EXCEPT !.pc = "failed"]
                       ELSE IF thrown # "none" /\ conv[i].kind = "queryStream"
                       THEN [@ EXCEPT !.rest = 0, !.disposed = TRUE,
                                      !.mode = "close", !.dispPc = "cleaned",
                                      !.pc = "closing"]
                       ELSE IF thrown # "none" \/ @.rest = 0
                       THEN [@ EXCEPT !.pc = "command", !.rest = 0]
                       ELSE [@ EXCEPT !.pc = "command",
                                      !.call = BoundaryCall(conv[i].kind),
                                      !.rest = @ - 1]]
         /\ observed' = IF ~r.connection THEN "none"
                        ELSE IF thrown # "none" THEN thrown
                        ELSE IF conv[i].kind = "bulkInsert" /\ conv[i].rest = 0
                        THEN "noColumns" ELSE "none"
         /\ UNCHANGED nextCur
         /\ worldFrame /\ convFrame

\* The boundary call of a convenience command, of a bulk execute or of
\* filestreamAvailable returned, on the connection of a pool-level call: a
\* failed query, execute or exec sets #hasError; the loop of #executeBatched
\* and the second scalar of filestreamAvailable (with the access level
\* sufficient, on a connection that is open) call the boundary again;
\* filestreamAvailable swallows the error of its query; querySingle throws,
\* without touching #hasError, when the rows are not exactly one.
poolCallReturn ==
  \E i \in PoolCalls, ok \in BOOLEAN, enabled \in BOOLEAN, rows \in RowCounts :
    LET kind == conv[i].kind
        again == /\ ok /\ conv[i].rest > 0
                 /\ kind = "filestreamAvailable" => enabled /\ ~conv[i].disposed
    IN /\ conv[i].call \notin {"none", "queryStream"}
       /\ conv' = [conv EXCEPT
                     ![i].hasError = (@ \/ (~ok /\ conv[i].call \in ErrorKinds)),
                     ![i].call = IF again THEN @ ELSE "none",
                     ![i].rest = IF again THEN @ - 1 ELSE 0]
       /\ observed' = IF kind = "filestreamAvailable" THEN "none"
                      ELSE IF ~ok THEN conv[i].call
                      ELSE IF kind = "querySingle" /\ rows # 1 THEN "rowCount"
                      ELSE "none"
       /\ lastConnect' = NoConnect
       /\ UNCHANGED nextCur
       /\ worldFrame /\ convFrame

\* The streams the connection of call i tracks in #streams.
Tracked(w, i) == w.conn \cap {conv[i].cur}

\* #cleanup of the connection of call i, which holds no transaction: its
\* orphan streams are closed.
ConvCleanup(w, i) == CloseEach([w EXCEPT !.conn = @ \ Tracked(w, i)], Tracked(w, i))

\* cn[Symbol.asyncDispose]() and cn.close() on the open connection of call i,
\* up to `await this.#cleanup()`.
ConvAsyncStart(i, w, mode, pc) ==
  /\ conv' = [conv EXCEPT ![i].disposed = TRUE, ![i].mode = mode,
                          ![i].dispPc = "cleaned", ![i].pc = pc]
  /\ SetWorld(ConvCleanup(w, i))

\* The branches of [Symbol.asyncDispose] and [Symbol.dispose] on a pooled
\* connection without transactions; close() has no release branch.
ConvReturnToPool(cn) == cn.mode # "close" /\ ~cn.hasError

\* The terminal call of the disposal of such a connection.
ConvTerminalCall(cn) ==
  [cn EXCEPT !.dispPc = "done",
             !.nPoolRelease = IF ConvReturnToPool(cn) THEN @ + 1 ELSE @,
             !.nDisconnect = IF ConvReturnToPool(cn) THEN @ ELSE @ + 1]

\* close() and [Symbol.asyncDispose]() after `await this.#cleanup()`.
convTerminal ==
  \E i \in PoolCalls :
    /\ conv[i].dispPc = "cleaned"
    /\ conv' = [conv EXCEPT ![i] = ConvTerminalCall(@)]
    /\ NoFailure
    /\ lastConnect' = NoConnect
    /\ UNCHANGED nextCur
    /\ worldFrame /\ convFrame

\* `await using cn` with `return await cn.query(...)`: the scope is left, and cn
\* disposed, when the command has settled. Before it, `return cn.query(...)`,
\* which leaves the scope as soon as the command was called.
ScopeExitNoAwait(i) == TRUE
ScopeExit(i) == conv[i].call = "none"

convScopeExit ==
  \E i \in PoolCalls :
    /\ conv[i].pc = "command" /\ conv[i].kind # "queryStream"
    /\ ScopeExit(i)
    /\ ConvAsyncStart(i, World, "asyncDispose", "exited")
    /\ NoFailure
    /\ lastConnect' = NoConnect
    /\ UNCHANGED nextCur
    /\ convFrame

\* pool.queryStream after `await cn.queryStream(...)`: the new cursor is
\* tracked by the connection and, when opts.transaction was given, by that
\* transaction too, and the PooledQueryStream around it is returned; or
\* cn.queryStream threw, having set
\* #hasError, and `catch (err) { await cn.disconnect() }` runs to the await
\* in close().
poolStreamReturn ==
  \E i \in PoolCalls, ok \in BOOLEAN :
    /\ conv[i].call = "queryStream"
    /\ IF ok
       THEN LET c == nextCur
                w0 == OnClose([World EXCEPT !.conn = @ \cup {c}], c, ConnCallback)
                w == IF conv[i].tx # 0 THEN TrackStream(w0, conv[i].tx, c) ELSE w0
            IN /\ SetWorld(w)
               /\ nextCur' = nextCur + 1
               /\ conv' = [conv EXCEPT ![i].call = "none", ![i].rest = 0,
                                       ![i].pc = "streaming", ![i].cur = c]
       ELSE /\ conv' = [conv EXCEPT ![i].call = "none", ![i].rest = 0,
                                    ![i].hasError = ("queryStream" \in ErrorKinds),
                                    ![i].disposed = TRUE, ![i].mode = "close",
                                    ![i].dispPc = "cleaned", ![i].pc = "closing"]
            /\ worldFrame
            /\ UNCHANGED nextCur
    /\ observed' = Failure("queryStream", ok)
    /\ lastConnect' = NoConnect
    /\ convFrame

\* pool.queryStream of call i returned its PooledQueryStream.
Streaming(i) == conv[i].pc = "streaming"

\* The for-await over #inner of iterator s of that PooledQueryStream has
\* ended (inner exhausted, broken out of, or thrown) and its finally has not
\* run yet.
FinallyOf(s, i) ==
  /\ iters[s].kind = "iter" /\ iters[s].cur = conv[i].cur
  /\ iters[s].pc \in {"ended", "errored"}
  /\ ~iters[s].finalized
FinallyPending(i) == \E s \in Iters : FinallyOf(s, i)

\* A call on a PooledQueryStream whose connection is disposed already: its
\* #inner.close() acts, the disposal call finds #disposed set. Resp.
\* #inner.close() threw: the method is left before it reaches the connection.
PooledLeft(w, saw) ==
  /\ SetWorld(w)
  /\ observed' = saw
  /\ UNCHANGED conv

\* [Symbol.dispose]() of the open connection of call i: #syncCleanup, then
\* the release or the disconnect.
ConvSyncDispose(i, w) ==
  /\ conv' = [conv EXCEPT ![i] =
                ConvTerminalCall([@ EXCEPT !.disposed = TRUE,
                                           !.mode = "dispose"])]
  /\ SetWorld(ConvCleanup(w, i))

\* PooledQueryStream.close() and [Symbol.asyncDispose](): this.#inner.close(),
\* then cn[Symbol.asyncDispose]() up to its first await.
PooledClose(i) ==
  LET c == conv[i].cur
      w == StreamClose(World, c)
  IN /\ Streaming(i)
     /\ IF CloseThrows(World, c) THEN PooledLeft(w, "streamClose")
        ELSE IF conv[i].disposed THEN PooledLeft(w, "disposed")
        ELSE ConvAsyncStart(i, w, "asyncDispose", "streaming") /\ NoFailure
     /\ lastConnect' = NoConnect
     /\ UNCHANGED nextCur
     /\ callFrame

pooledClose == \E i \in PoolCalls : PooledClose(i) /\ UNCHANGED iters

\* PooledQueryStream[Symbol.asyncIterator]: `finally { await this.close() }`,
\* run once by each iterator.
pooledFinally ==
  \E i \in PoolCalls, s \in Iters :
    /\ FinallyOf(s, i)
    /\ PooledClose(i)
    /\ iters' = [iters EXCEPT ![s].finalized = TRUE]

\* PooledQueryStream[Symbol.dispose](): this.#inner.close(), then
\* cn[Symbol.dispose]().
pooledDispose ==
  \E i \in PoolCalls :
    LET c == conv[i].cur
        w == StreamClose(World, c)
    IN /\ Streaming(i)
       /\ IF CloseThrows(World, c) THEN PooledLeft(w, "streamClose")
          ELSE IF conv[i].disposed THEN PooledLeft(w, "disposed")
          ELSE ConvSyncDispose(i, w) /\ NoFailure
       /\ lastConnect' = NoConnect
       /\ UNCHANGED nextCur
       /\ convFrame

\* ---- ExecResult ----

\* Parameter names are strings, here sequences of these characters, and the
\* name toString with and without the prefix.
Chars == {"@", "a"}
RECURSIVE NamesUpTo(_)
NamesUpTo(n) ==
  IF n = 0 THEN {<<>>}
  ELSE NamesUpTo(n - 1) \cup {<<ch>> \o s : ch \in Chars, s \in NamesUpTo(n - 1)}
\* The property names every object parsed from JSON inherits from
\* Object.prototype (toString stands for all of them).
ObjectPrototypeNames == {<<"toString">>}

Names == NamesUpTo(MaxLen) \cup ObjectPrototypeNames
           \cup {<<"@">> \o n : n \in ObjectPrototypeNames}

\* #data as Rust serialised it: outputParams maps a name to its value (the
\* value of parameter k is written <<"value", k>>), resultSets is a list of
\* row lists (set j holds j - 1 rows).
RECURSIVE KeySets(_)
KeySets(n) ==
  IF n = 0 THEN {{}}
  ELSE KeySets(n - 1) \cup {ks \cup {k} : ks \in KeySets(n - 1), k \in Names}

RawResults ==
  {[outputParams |-> [k \in keys |-> <<"value", k>>],
    resultSets |-> [j \in 1..n |-> [r \in 1..(j - 1) |-> <<"row", j, r>>]]] :
      keys \in KeySets(MaxParams), n \in 0..MaxSets}

Threw(error, message) == [ok |-> FALSE, error |-> error, value |-> message]
Returned(value) == [ok |-> TRUE, error |-> "none", value |-> value]

StartsWithAt(name) == Len(name) > 0 /\ name[1] = "@"

\* `key in object`: own properties and those on the prototype chain; resp.
\* own properties only.
HasOwn(object, key) == key \in DOMAIN object
In(object, key) == key \in DOMAIN object \/ key \in ObjectPrototypeNames

\* object[key]
Get(object, key) ==
  IF key \in DOMAIN object THEN object[key] ELSE <<"inherited", key>>

\* ExecResult.getOutput(name)
GetOutput(data, name) ==
  LET clean == IF StartsWithAt(name) THEN Tail(name) ELSE name
  IN  IF ~In(data.outputParams, clean) THEN Threw("Error", <<"not found", clean>>)
      ELSE Returned(Get(data.outputParams, clean))

\* ExecResult.getResults(index), index counted from 0; resp. without the
\* lower bound test (resultSets[-1] is undefined).
GetResultsNoLower(data, index) ==
  IF index >= Len(data.resultSets) THEN Threw("RangeError", <<"out of range", index>>)
  ELSE IF index < 0 THEN Returned(<<"undefined">>)
  ELSE Returned(data.resultSets[index + 1])
GetResults(data, index) ==
  IF index < 0 \/ index >= Len(data.resultSets)
  THEN Threw("RangeError", <<"out of range", index>>)
  ELSE Returned(data.resultSets[index + 1])

\* ExecResult.getResultFirst(index): getResults(index)[0]
GetResultFirst(data, index) ==
  LET results == GetResults(data, index)
  IN  IF ~results.ok THEN results
      ELSE IF results.value = <<>> THEN Returned(<<"undefined">>)
      ELSE Returned(Head(results.value))

NoExec == [data |-> [outputParams |-> <<>>, resultSets |-> <<>>],
           op |-> "none", name |-> <<>>, index |-> 0, out |-> Returned(<<"none">>)]
Indexes == (0 - MaxSets - 1)..(MaxSets + 1)

execFrame == UNCHANGED <<connVars, poolVars, done, iters, conv, ffi, ended>>

getOutput ==
  \E name \in Names :
    /\ execRes' = [execRes EXCEPT !.op = "getOutput", !.name = name, !.index = 0,
                                  !.out = GetOutput(execRes.data, name)]
    /\ execFrame

getResults ==
  \E index \in Indexes :
    /\ execRes' = [execRes EXCEPT !.op = "getResults", !.name = <<>>, !.index = index,
                                  !.out = GetResults(execRes.data, index)]
    /\ execFrame

getResultFirst ==
  \E index \in Indexes :
    /\ execRes' = [execRes EXCEPT !.op = "getResultFirst", !.name = <<>>,
                                  !.index = index,
                                  !.out = GetResultFirst(execRes.data, index)]
    /\ execFrame

NextExec == getOutput \/ getResults \/ getResultFirst


InitAux ==
  /\ done = [c \in CurIds |-> FALSE]
  /\ iters = [s \in Iters |-> NoIter]
  /\ conv = [i \in PoolCalls |-> NoConv]

InitLib ==
  /\ ended = {}
  /\ execRes = NoExec
  /\ ffi = FfiReady

InitPool ==
  /\ poolDedup = [k \in Keys |-> 0]
  /\ pools = [p \in PoolIds |-> NoPool]
  /\ nextPoolId = 1
  /\ creating = [cfg \in Configs |-> 0]
  /\ handles = <<>>
  /\ reg = NoReg
  /\ lastConnect = NoConnect

\* Every ffi.streamClose call returns; resp. some may throw.
Init == InitConn /\ InitPool /\ InitAux /\ InitLib /\ closeThrows = {}
InitAnyClose == InitConn /\ InitPool /\ InitAux /\ InitLib /\ closeThrows \in SUBSET CurIds

InitExec ==
  /\ InitConn /\ InitPool /\ InitAux /\ closeThrows = {} /\ poolId = 0
  /\ ffi = NoFfi /\ ended = {}
  /\ execRes \in {[NoExec EXCEPT !.data = data] : data \in RawResults}
SpecExec == InitExec /\ [][NextExec]_vars

InitFfi ==
  /\ InitConn /\ InitPool /\ InitAux /\ closeThrows = {} /\ poolId = 0
  /\ execRes = NoExec /\ ended = {}
  /\ ffi \in {FfiAt(runtime, found) : runtime \in Runtimes, found \in BOOLEAN}
SpecFfi == InitFfi /\ [][NextFfi]_vars

Next ==
  \/ query \/ queryReturn
  \/ execute \/ executeReturn
  \/ exec \/ execReturn
  \/ queryStream \/ queryStreamReturn
  \/ bulk \/ bulkExecute \/ bulkExecuteReturn
  \/ filestreamAvailable \/ filestreamAvailableReturn
  \/ beginTransaction \/ beginTransactionReturn
  \/ commit \/ commitReturn
  \/ rollback \/ rollbackReturn
  \/ streamClose
  \/ close \/ disconnect \/ asyncDispose \/ dispose
  \/ cleanupResume \/ disposeRollbackReturn \/ terminal

Spec == Init /\ [][Next]_vars

\* The transactions of one connection, with the disposal calls of the
\* transactions themselves and of the connection (cursors bound to a
\* transaction are opened under Next).
NextTx ==
  \/ beginTransaction \/ beginTransactionReturn
  \/ commit \/ commitReturn
  \/ rollback \/ rollbackReturn
  \/ txDispose \/ txAsyncDispose \/ txAsyncDisposeReturn
  \/ close \/ asyncDispose \/ dispose
  \/ cleanupResume \/ disposeRollbackReturn \/ terminal

\* ... of a pool-owned connection.
InitTx == Init /\ poolId # 0

SpecTx == InitTx /\ [][NextTx]_vars

\* Cursors and their close callbacks: the callers of _onClose and close().
NextStream ==
  \/ queryStream \/ queryStreamReturn
  \/ onClose \/ streamClose
  \/ dispose

SpecStream == InitAnyClose /\ [][NextStream]_vars

\* Disposal of a connection that holds transactions and cursors, with rollbacks
\* that may fail and ffi.streamClose calls that may throw.
NextCleanup ==
  \/ beginTransaction \/ beginTransactionReturn
  \/ queryStream \/ queryStreamReturn
  \/ close \/ asyncDispose \/ dispose
  \/ cleanupResume \/ disposeRollbackReturn \/ terminal

SpecCleanup == InitAnyClose /\ [][NextCleanup]_vars

\* The consumers of the cursors of a connection, next to explicit close() and
\* the disposal of the connection.
NextIter ==
  \/ queryStream \/ queryStreamReturn
  \/ iterNext \/ rsPull \/ streamNextReturn \/ iterBreak \/ rsCancel
  \/ streamClose
  \/ dispose

SpecIter == InitTx /\ [][NextIter]_vars

\* The consumer of the cursor of a pooled connection or of its transaction,
\* next to explicit close() and to every disposal of these owners, synchronous
\* and asynchronous, with ffi.streamClose calls that may throw. The cursor has
\* one consumer fewer than in SpecIter.
NextOwner ==
  \/ queryStream \/ queryStreamReturn
  \/ (iterNext /\ iters'[MaxIter].kind = "none")
  \/ (rsPull /\ iters'[MaxIter].kind = "none")
  \/ streamNextReturn \/ iterBreak \/ rsCancel
  \/ streamClose
  \/ beginTransaction \/ beginTransactionReturn
  \/ txDispose \/ txAsyncDispose \/ txAsyncDisposeReturn
  \/ close \/ disconnect \/ asyncDispose \/ dispose
  \/ cleanupResume \/ disposeRollbackReturn \/ terminal

InitOwner == InitAnyClose /\ poolId # 0
SpecOwner == InitOwner /\ [][NextOwner]_vars

\* Commands called with a cancellation signal, on a connection that may hold a
\* transaction and may be disposed.
NextSignal ==
  \/ querySignal \/ queryReturn \/ querySingleReturn
  \/ executeSignal \/ executeReturn
  \/ execSignal \/ execReturn \/ queryStreamSignal \/ queryStreamReturn
  \/ beginTransaction \/ beginTransactionReturn \/ txDispose
  \/ dispose

SpecSignal == Init /\ [][NextSignal]_vars

InitPoolSpec ==
  /\ InitConn /\ InitPool /\ InitAux /\ closeThrows = {} /\ poolId = 0
  /\ ended = {} /\ execRes = NoExec /\ ffi = NoFfi

\* createPool returned one MssqlPool, or as many of them for the same
\* configuration as objects allows, which share the pool.
PoolCreated(objects) ==
  \E cfg \in {[server |-> "s1", database |-> "db", poolMax |-> 5]} :
    LET handle == [poolId |-> 1, closed |-> FALSE, config |-> cfg,
                   poolCloseCalls |-> 0, acquiring |-> <<>>]
    IN /\ poolDedup = [k \in Keys |-> IF k = DedupKey(cfg) THEN 1 ELSE 0]
       /\ handles \in {[o \in 1..n |-> handle] : n \in objects}
       /\ pools = [p \in PoolIds |->
                    IF p = 1 THEN [key |-> DedupKey(cfg), refCount |-> Len(handles),
                                   poolMax |-> cfg.poolMax, destroyed |-> 0]
                    ELSE NoPool]
       /\ nextPoolId = 2
       /\ creating = [c \in Configs |-> 0]
       /\ reg = NoReg
       /\ lastConnect = NoConnect

\* Pool-level calls on an MssqlPool that createPool returned, next to close()
\* of that pool.
InitCheckout ==
  /\ InitConn /\ InitAux /\ InitLib /\ closeThrows = {} /\ poolId = 1
  /\ PoolCreated({1, 2})

NextCheckout ==
  \/ poolCommand \/ poolBulkExecute \/ poolFilestreamAvailable
  \/ poolAcquireReturn \/ poolCallReturn
  \/ convScopeExit \/ convTerminal
  \/ poolClose

SpecCheckout == InitCheckout /\ [][NextCheckout]_vars

\* The convenience commands of one MssqlPool, next to close() of that pool.
InitCommand ==
  /\ InitConn /\ InitAux /\ InitLib /\ closeThrows = {} /\ poolId = 1
  /\ PoolCreated({1})

NextCommand ==
  \/ poolCommand
  \/ poolAcquireReturn \/ poolCallReturn
  \/ convScopeExit \/ convTerminal
  \/ poolClose

SpecCommand == InitCommand /\ [][NextCommand]_vars

\* pool.queryStream and the consumption of its PooledQueryStream, with
\* ffi.streamClose calls that may throw; the caller holds a connection of its own and may pass a transaction it
\* began there in the opts of pool.queryStream.
NextConv ==
  \/ beginTransaction \/ beginTransactionReturn \/ txDispose
  \/ poolQueryStream
  \/ poolAcquireReturn \/ poolStreamReturn
  \/ convTerminal
  \/ iterNext \/ rsPull \/ streamNextReturn \/ iterBreak \/ rsCancel
  \/ pooledFinally \/ pooledClose \/ pooledDispose

InitConv ==
  /\ InitConn /\ InitAux /\ InitLib /\ closeThrows \in SUBSET CurIds /\ poolId = 1
  /\ PoolCreated({1})
SpecConv == InitConv /\ [][NextConv]_vars

\* MssqlPool.connect() calls on the handle of a pool, next to close() of the
\* handle and closeAll().
NextConnect ==
  \/ poolConnect \/ poolConnectReturn
  \/ poolClose
  \/ closeAll \/ closeAllReturn \/ exitHandler

SpecConnect == InitCheckout /\ [][NextConnect]_vars

NextPool ==
  \/ createPool \/ createPoolCall \/ createPoolReturn
  \/ poolClose
  \/ closeAll \/ closeAllReturn \/ exitHandler
  \/ ffiResolve \/ ffiCreated \/ ffiSettle

SpecPool == InitPoolSpec /\ [][NextPool]_vars

\* createPool and MssqlPool.close calls running concurrently against the registry.
NextRegistry ==
  \/ createPool \/ createPoolCall \/ poolCloseCall
  \/ closeAll \/ closeAllReturn \/ exitHandler
  \/ ffiResolve \/ ffiCreated \/ ffiSettle
  \/ storeLookup \/ storeApply
  \/ removeDecrement \/ removeDestroy

SpecRegistry == InitPoolSpec /\ [][NextRegistry]_vars

\* ---- properties of disposal ----

\* A step in which the boundary receives poolRelease, resp. disconnect, for the
\* connection handle.
Released == nPoolRelease' = nPoolRelease + 1
Disconnected == nDisconnect' = nDisconnect + 1
TerminalCall == Released \/ Disconnected
DisconnectedOnly == Disconnected /\ nPoolRelease' = nPoolRelease
ReleasedOnly == Released /\ nDisconnect' = nDisconnect

Range(seq) == {seq[i] : i \in DOMAIN seq}

\* C1 (as the code has it): at its terminal call, a Connection whose error flag is
\* set is disconnected and not released, on every disposal path; so is one that
\* had an active Transaction when disposal started, on synchronous dispose and on
\* close/disconnect. (Asynchronous dispose rolls the transaction back and then
\* decides on the error flag alone.)
C1_ErrorOrSyncActiveTxNeverReleased ==
  [][(TerminalCall /\ (hasError \/ (dispMode' # "asyncDispose" /\ startHadActiveTx')))
       => DisconnectedOnly]_vars

\* C1 witness: a pool-owned connection closed with an active transaction, disconnected.
C1_Witness ==
  /\ poolId # 0 /\ dispMode = "close" /\ dispPc = "done" /\ startHadActiveTx
  /\ nDisconnect = 1 /\ nPoolRelease = 0

\* C1 as stated: on every disposal path, a Connection whose error flag is set or
\* that had a Transaction active when its disposal started is disconnected and
\* never released.
C1_Original ==
  [][(TerminalCall /\ (hasError \/ startHadActiveTx')) => DisconnectedOnly]_vars

\* C2: the terminal call of an asynchronous dispose is poolRelease alone when
\* the Connection is pool-owned and its error flag is not set, and disconnect
\* alone when its error flag is set or it is standalone.
C2_AsyncDisposeBranch ==
  [][(dispMode = "asyncDispose" /\ TerminalCall)
       => IF poolId # 0 /\ ~hasError THEN ReleasedOnly ELSE DisconnectedOnly]_vars

\* C2 witness: an error-free pool-owned connection, asynchronously disposed and released.
C2_Witness ==
  /\ poolId # 0 /\ ~hasError /\ dispMode = "asyncDispose" /\ dispPc = "done"
  /\ nPoolRelease = 1 /\ nDisconnect = 0

\* C3: a pool-owned Connection disposed synchronously while one of its
\* Transactions was active has been disconnected and not released.
C3_SyncDisposeActiveTxEvicts ==
  (dispMode = "dispose" /\ poolId # 0 /\ startHadActiveTx)
    => (nDisconnect = 1 /\ nPoolRelease = 0)

\* C3 witness: such a connection, error-free, after its synchronous dispose.
C3_Witness ==
  /\ dispMode = "dispose" /\ poolId # 0 /\ startHadActiveTx /\ ~hasError
  /\ inflight = {} /\ nDisconnect = 1

\* C4: over any interleaving of close, disconnect, dispose and asyncDispose the
\* boundary receives at most one terminal call for the handle, exactly one once a
\* disposal has run to its end, never a release and a disconnect together; and a
\* disposal call that finds the disposed flag set performs no boundary operation.
C4_ExactlyOneTerminalCall ==
  [][/\ nPoolRelease' + nDisconnect' <= 1
     /\ (dispPc' = "done") = (nPoolRelease' + nDisconnect' = 1)
     /\ (nPoolRelease' + nDisconnect' = 1 => disposed')
     /\ (observed' = "disposed"
           => UNCHANGED <<nPoolRelease, nDisconnect, nStreamClose, inflight>>)]_vars

\* C4 witness: a disposal call arriving after the one terminal call was made.
C4_Witness ==
  observed = "disposed" /\ dispPc = "done" /\ nPoolRelease + nDisconnect = 1

\* C5: a failed query, execute, exec, stream-open or begin-transaction sets the
\* error flag; no step clears the flag; and a terminal call made with the flag
\* set is a disconnect, never a release.
C5_FailedCommandFlagsConnection ==
  [][/\ (observed' \in {"query", "execute", "exec", "queryStream", "beginTransaction"}
           => hasError')
     /\ (hasError => hasError')
     /\ ((hasError /\ TerminalCall) => DisconnectedOnly)]_vars

\* C5 witness: a pool-owned connection with no transaction open, asynchronously
\* disposed with its error flag set, disconnected.
C5_Witness ==
  /\ poolId # 0 /\ hasError /\ dispMode = "asyncDispose" /\ dispPc = "done"
  /\ ~startHadActiveTx /\ nDisconnect = 1 /\ nPoolRelease = 0

\* C6 as stated: a step that sees a bulk-load, commit or rollback boundary call
\* fail leaves the error flag set.
C6_FailedBulkOrTxCallFlagsConnection ==
  observed \in {"bulkInsert", "commit", "rollback"} => hasError

\* C7: when close or asynchronous dispose has made its terminal call, #cleanup has
\* visited every transaction it took over, no rollback it issued is still in
\* flight, and every transaction and cursor it took over is inactive, resp. closed
\* (one still active or open was tracked after #cleanup took the collections).
C7_TerminalAfterCleanupCompleted ==
  (dispPc = "done" /\ dispMode \in {"close", "asyncDispose"})
    => /\ dispTxs = <<>>
       /\ \A call \in inflight : call.by # "cleanup"
       /\ \A t \in Created : IsActive(t) => t \in Range(transactions)
       /\ \A c \in 1..(nextCur - 1) : ~curClosed[c] => c \in streams

\* C7 witness: an asynchronous dispose that rolled a transaction back and closed
\* a cursor before its terminal call.
C7_Witness ==
  /\ dispMode = "asyncDispose" /\ dispPc = "done" /\ startHadActiveTx
  /\ nextTx > 1 /\ rolledBack[1] /\ nextCur > 1 /\ nStreamClose[1] = 1
  /\ nPoolRelease = 1

\* C8 as stated: no terminal call is made while a slow boundary call issued on
\* the handle is in flight.
C8_NoTerminalCallWhileInFlight ==
  [][TerminalCall => inflight = {}]_vars

\* ---- properties of the pool registry ----

HandlesOf(p) == {h \in DOMAIN handles : handles[h].poolId = p}
OpenHandlesOf(p) == {h \in HandlesOf(p) : ~handles[h].closed}
OpenHandles == {h \in DOMAIN handles : ~handles[h].closed}
LivePools == {p \in PoolIds : pools[p].refCount > 0}
Identity(h) == <<handles[h].config.server, handles[h].config.database>>

\* ffi.closeAll() has not been called: the pools are opened and closed through
\* createPool and the handles it returned.
OpensAndCloses == ~reg.closedAll

\* C9: a boundary pool opened N times and closed through its handles is
\* destroyed once, at the close of the last of its N handles and not before:
\* while a handle is open its pool exists with one reference per open handle,
\* and a connect through it is not refused for want of the pool.
C9_DestroyedOnceAtLastClose ==
  OpensAndCloses =>
    \A p \in 1..(nextPoolId - 1) :
      /\ pools[p].destroyed <= 1
      /\ (pools[p].destroyed = 1) = (OpenHandlesOf(p) = {})
      /\ pools[p].refCount = Cardinality(OpenHandlesOf(p))

\* C9 witness: a pool opened at least twice, every handle closed, destroyed once.
C9_Witness ==
  \E p \in 1..(nextPoolId - 1) :
    /\ OpensAndCloses
    /\ Cardinality(HandlesOf(p)) >= 2
    /\ OpenHandlesOf(p) = {}
    /\ pools[p].destroyed = 1

\* C10: two open handles obtained for configs with the same dedup-relevant
\* fields, whatever their pool-tuning, carry the same pool id; that pool counts
\* one reference per handle, and there is one live boundary pool per identity.
C10_SameIdentitySamePool ==
  OpensAndCloses =>
    /\ \A h1, h2 \in OpenHandles :
         Identity(h1) = Identity(h2) => handles[h1].poolId = handles[h2].poolId
    /\ \A h \in OpenHandles :
         pools[handles[h].poolId].refCount
           = Cardinality({g \in OpenHandles : Identity(g) = Identity(h)})
    /\ Cardinality(LivePools) = Cardinality({Identity(h) : h \in OpenHandles})

\* C10 witness: two open handles of one identity opened with different poolMax,
\* sharing a pool whose reference count is 2.
C10_Witness ==
  \E h1, h2 \in OpenHandles :
    /\ OpensAndCloses
    /\ Identity(h1) = Identity(h2)
    /\ handles[h1].config.poolMax # handles[h2].config.poolMax
    /\ handles[h1].poolId = handles[h2].poolId
    /\ pools[handles[h1].poolId].refCount = 2

\* C12: a pool handle issues ffi.poolClose at most once, at its first close();
\* a close(), dispose or asyncDispose that finds it closed issues none, so the
\* handle takes one reference off its pool and no more.
C12_PoolCloseIdempotent ==
  /\ \A h \in DOMAIN handles :
       handles[h].poolCloseCalls = IF handles[h].closed THEN 1 ELSE 0
  /\ OpensAndCloses =>
       \A p \in 1..(nextPoolId - 1) :
         pools[p].refCount + Cardinality(HandlesOf(p) \ OpenHandlesOf(p))
           = Cardinality(HandlesOf(p))

\* C12 witness: a close() on a handle that was closed before, with another
\* handle of the same pool still open.
C12_Witness ==
  /\ lastConnect.result = "closed"
  /\ \E g \in OpenHandles : handles[g].poolId = handles[lastConnect.handle].poolId
  /\ handles[lastConnect.handle].poolCloseCalls = 1

\* ---- properties of transactions ----

\* A step that puts a boundary call of this kind for transaction t in flight,
\* next to identical calls in flight or not; a step in which one returns; and
\* such a call being in flight.
Matches(c, kind, t, by) == c.kind = kind /\ c.tx = t /\ c.by = by
Issues(kind, t, by) == \E c \in inflight' \ inflight : Matches(c, kind, t, by)
Returns(kind, t, by) == \E c \in inflight \ inflight' : Matches(c, kind, t, by)
InFlight(kind, t, by) == \E c \in inflight : Matches(c, kind, t, by)

\* C15: commit() or rollback() on a Transaction that is not active issues no
\* commit or rollback boundary call: it is refused ('no longer active'), and an
\* explicit commit or rollback call is issued for an active Transaction only.
C15_InactiveTxRefused ==
  [][/\ \A t \in TxIds :
          (Issues("commit", t, "user") \/ Issues("rollback", t, "user"))
            => IsActive(t)
     /\ (observed' = "notActive" => inflight' = inflight)]_vars

\* C15 witness: a commit or rollback refused on a committed Transaction.
C15_Witness ==
  observed = "notActive" /\ committed[1] /\ ~rolledBack[1] /\ inflight = {}

\* The callers of a boundary call: the user of the API, the connection's
\* #cleanup, and Transaction[Symbol.asyncDispose] called by the user.
Callers == {"user", "cleanup", "txDispose"}

\* A step of a disposal path: of the Connection (#disposed set, #cleanup or the
\* terminal call advancing) or of a Transaction (force-deactivation, or
\* [Symbol.asyncDispose] issuing or finishing its rollback).
DisposalStep ==
  \/ disposed' # disposed
  \/ dispPc' # dispPc
  \/ \E t \in TxIds : rolledBack'[t] /\ ~rolledBack[t]
                      /\ ~Returns("rollback", t, "user")
  \/ \E t \in TxIds, by \in {"cleanup", "txDispose"} :
       Issues("rollback", t, by) \/ Issues("commit", t, by)

\* C13: a commit boundary call is issued only by an explicit commit() on an
\* active Transaction, never by a step of a disposal path; a Transaction becomes
\* committed only when such a call returns; a disposal path that ends a
\* Transaction ends it rolled back and leaves the committed flag alone.
C13_CommitOnlyExplicit ==
  [][\A t \in TxIds :
       /\ \A by \in Callers :
            Issues("commit", t, by)
              => by = "user" /\ IsActive(t) /\ ~DisposalStep
       /\ (committed'[t] /\ ~committed[t])
            => Returns("commit", t, "user")
       /\ DisposalStep => committed'[t] = committed[t]
       /\ (\E by \in {"cleanup", "txDispose"} :
             Returns("rollback", t, by))
            => rolledBack'[t]]_vars

\* C13 witness: a Transaction with no commit() ever issued was disposed
\* asynchronously by its holder while active, and ended rolled back.
C13_Witness ==
  /\ nRollbackByDispose[1] = 1 /\ rolledBack[1] /\ ~committed[1]
  /\ inflight = {} /\ ~disposed

\* C14: for every Transaction the implicit rollback boundary call is issued at
\* most once in total, however many times the Transaction and its Connection
\* are disposed, overlapping disposals included.
C14_ImplicitRollbackOnce ==
  \A t \in TxIds : nRollbackByDispose[t] <= 1

\* C16: a Transaction that reached a terminal state never changes again: its
\* committed and rolled-back flags are never both set, under any interleaving
\* of commit(), rollback() and disposal.
C16_TerminalStateExclusive ==
  \A t \in TxIds : ~(committed[t] /\ rolledBack[t])

\* C17: when an explicit commit() or rollback() puts its boundary call in
\* flight, no Cursor tracked by that Transaction is open: the tracked Cursors
\* were closed first.
C17_ExplicitEndClosesCursors ==
  [][\A t \in TxIds :
       (Issues("commit", t, "user") \/ Issues("rollback", t, "user"))
         => \A c \in txStreams'[t] : curClosed'[c]]_vars

\* C18: when asynchronous disposal of a Connection (close or asyncDispose)
\* issues the rollback of a Transaction that was still active, every Cursor the
\* Transaction tracked was closed, its stream-close boundary call made, before
\* the rollback call was put in flight.
C18_CursorClosedBeforeRollback ==
  \A r \in trackedAtRollback :
    r.by = "cleanup" => r.closed /\ nStreamClose[r.cur] = 1

\* C18 witness: the rollback of a Transaction disposed by the Connection is in
\* flight, and the Transaction tracked an open Cursor when disposal reached it.
C18_Witness ==
  /\ InFlight("rollback", 1, "cleanup")
  /\ \E r \in trackedAtRollback : r.by = "cleanup" /\ r.cur = 1
  /\ dispMode \in {"close", "asyncDispose"}

\* A step that deactivates a Transaction locally: its rolled-back flag rises
\* and no rollback call of it returned in the step.
ForceDeactivation ==
  \E t \in TxIds :
    /\ rolledBack'[t] /\ ~rolledBack[t]
    /\ \A by \in Callers : ~Returns("rollback", t, by)

\* The step of the Connection's [Symbol.dispose]() past its #disposed guard.
SyncDisposeStep == dispMode' = "dispose" /\ dispMode # "dispose"

\* C19: synchronous disposal of a Connection or of a Transaction puts no
\* boundary call in flight and leaves every still-active Transaction of the
\* Connection deactivated; a rollback call is issued only by an explicit
\* rollback() on an active Transaction or by an asynchronous disposal, which
\* leaves the Transaction's flags alone until the call returns.
C19_SyncDisposalIssuesNoRollback ==
  [][/\ (SyncDisposeStep \/ ForceDeactivation)
          => /\ inflight' = inflight
             /\ nRollbackByDispose' = nRollbackByDispose
     /\ SyncDisposeStep
          => \A t \in Range(transactions) : committed'[t] \/ rolledBack'[t]
     /\ \A t \in TxIds, by \in Callers :
          Issues("rollback", t, by)
            => \/ by = "user" /\ IsActive(t)
               \/ /\ by \in {"cleanup", "txDispose"}
                  /\ rolledBack'[t] = rolledBack[t]
                  /\ by = "cleanup" => dispMode' \in {"close", "asyncDispose"}]_vars

\* C19 witness: the Connection was disposed synchronously with an active
\* Transaction, which is now deactivated, and no rollback was ever issued by a
\* disposal.
C19_Witness ==
  /\ dispMode = "dispose" /\ startHadActiveTx
  /\ rolledBack[1] /\ ~committed[1]
  /\ nRollbackByDispose[1] = 0 /\ inflight = {}

\* ---- properties of cursors ----

\* C20: for every Cursor and any number of close() calls, calls from inside a
\* close callback included, every callback passed to _onClose has been invoked
\* exactly once as soon as the Cursor is closed, the step that registered it on
\* a closed Cursor included, and not at all while the Cursor is open.
C20_CloseCallbacksOnce ==
  \A c \in CurIds : \A cb \in DOMAIN cbInvocations[c] :
    cbInvocations[c][cb] = IF curClosed[c] THEN 1 ELSE 0


\* ---- properties of the registry under concurrency ----

\* The remove_pool calls on pool p that have decremented and not yet finished.
MidRemoves(p) ==
  Cardinality({i \in DOMAIN reg.mid :
                 reg.mid[i].kind = "remove" /\ reg.mid[i].val = p})

\* C11: under any interleaving of concurrent opens and closes, at most one
\* call is inside a registry update; the reference count of every pool equals
\* its completed opens minus its completed closes (less the one close that has
\* decremented and not finished); and a boundary pool is destroyed at most once
\* and only when no completed open is left without its completed close.
C11_RegistrySerialized ==
  /\ Len(reg.mid) <= 1
  /\ OpensAndCloses =>
       \A p \in PoolIds :
         /\ pools[p].refCount = reg.opened[p] - reg.closed[p] - MidRemoves(p)
         /\ pools[p].destroyed <= 1
         /\ pools[p].destroyed = 1 => reg.opened[p] = reg.closed[p]

\* C11 witness: the last close of a pool is between its decrement and the
\* destruction while an open of the same identity waits for the registry, and
\* an earlier pool has already been destroyed at its last close.
C11_Witness ==
  /\ OpensAndCloses
  /\ Len(reg.mid) = 1 /\ reg.mid[1].kind = "remove" /\ reg.mid[1].prev = 1
  /\ \E cfg \in InCreation : DedupKey(cfg) = pools[reg.mid[1].val].key
  /\ \E p \in PoolIds : pools[p].destroyed = 1

\* ---- properties of close and of failures ----

\* C30: the terminal call of close() / disconnect() is the disconnect boundary
\* call and never poolRelease, for a pool-owned and for a standalone
\* Connection, with the error flag set or not.
C30_CloseAlwaysDisconnects ==
  [][(TerminalCall /\ dispMode' = "close") => DisconnectedOnly]_vars

\* C30 witness: a pool-owned Connection without error and without Transaction
\* was closed and got disconnect, not poolRelease.
C30_Witness ==
  /\ poolId # 0 /\ ~hasError /\ ~startHadActiveTx
  /\ dispMode = "close" /\ dispPc = "done"
  /\ nDisconnect = 1 /\ nPoolRelease = 0

\* The rollback of transaction t issued by #cleanup returned in this step.
CleanupRollbackReturned(t) ==
  Returns("rollback", t, "cleanup")

\* C26: an error of a cleanup step is swallowed and cleanup goes on: #cleanup is
\* never left by an exception; a failed rollback leaves the Transaction
\* inactive and is followed by the next loop iteration, and a rollback is only
\* ever issued for an active Transaction (none is retried); when #cleanup or
\* #syncCleanup ends, every Cursor the Connection tracked is closed with one
\* stream-close call, also behind a Cursor whose close threw; and a disposal
\* that is done has made its one release or disconnect call.
C26_CleanupErrorsSwallowed ==
  [][/\ dispPc' # "threw"
     /\ dispPc' = "awaitTx"
          => \E t \in TxIds : (\E c \in inflight' : Matches(c, "rollback", t, "cleanup"))
     /\ \A t \in TxIds :
          /\ (CleanupRollbackReturned(t) /\ observed' = "rollback")
               => /\ rolledBack'[t]
                  /\ dispPc' = "loop"
                  /\ inflight' = inflight \ {Call("rollback", t, "cleanup")}
          /\ Issues("rollback", t, "cleanup") => IsActive(t)
     /\ (dispPc' \in {"cleaned", "done"} /\ dispPc \notin {"cleaned", "done"})
          => /\ dispTxs' = <<>>
             /\ \A c \in streams : curClosed'[c] /\ nStreamClose'[c] = 1
     /\ dispPc' = "done" => nPoolRelease' + nDisconnect' = 1]_vars

\* C26 witness: #cleanup goes on with its loop right after the rollback of its
\* Transaction failed, the Cursor whose close throws having had its one
\* stream-close call.
C26_Witness ==
  /\ dispPc = "loop" /\ observed = "rollback" /\ rolledBack[1]
  /\ 1 \in closeThrows /\ curClosed[1] /\ nStreamClose[1] = 1

\* The boundary calls a command of the Connection, or of a builder obtained
\* from it, issues.
ConnectionCommandKinds ==
  {"query", "execute", "exec", "queryStream", "beginTransaction", "bulkInsert"}

\* C24: an operation attempted on a disposed Connection (a builder's execute()
\* included) and a command bound to an inactive Transaction issue no boundary
\* call: every step in which the caller (or its filestreamAvailable) puts a
\* call in flight starts on a Connection that is not disposed, and a commit,
\* rollback or transaction-bound queryStream starts on an active Transaction.
C24_DisposedOrInactiveFailsLocally ==
  [][\A call \in inflight' \ inflight :
       call.by \in {"user", "filestreamAvailable"} =>
         /\ call.kind \in ConnectionCommandKinds => ~disposed
         /\ call.tx # 0 => IsActive(call.tx)]_vars

\* C25: when poolAcquire returns the invalid handle, pool.connect() fails with
\* the boundary's last-error message, produces no Connection, and no release
\* or disconnect call is issued in the step.
C25_FailedAcquireYieldsNoConnection ==
  [][(lastConnect'.result \in {"ok", "failed"}
      /\ lastConnect'.acquired = INVALID_HANDLE)
     => /\ lastConnect'.result = "failed"
        /\ ~lastConnect'.connection
        /\ lastConnect'.lastError => lastConnect'.message = "lastError"
        /\ UNCHANGED <<nPoolRelease, nDisconnect>>]_vars

\* C25 witness: connect() on an open handle of a live pool failed (exhausted
\* pool, boundary error) with the boundary's last-error message.
C25_Witness ==
  /\ lastConnect.result = "failed" /\ lastConnect.message = "lastError"
  /\ ~handles[lastConnect.handle].closed
  /\ pools[handles[lastConnect.handle].poolId].refCount > 0
  /\ lastConnect.acquired = INVALID_HANDLE /\ ~lastConnect.connection

\* C27: once the disposal of the Connection has completed, every Cursor opened
\* on it is closed and every Transaction begun on it is inactive, those whose
\* queryStream or beginTransaction call was in flight when disposal started
\* included.
C27_DisposalCleansEverything ==
  dispPc = "done" =>
    /\ \A c \in CurIds : c < nextCur => curClosed[c]
    /\ \A t \in Created : ~IsActive(t)

\* ---- properties of cursor consumers ----

\* Consumer s asks for a row in this step: a new consumer starts its first
\* fetch, or one that holds a row goes on.
AsksNow(s) == iters[s].pc \in {"new", "suspended"} /\ iters'[s] # iters[s]

\* Consumer s is handed a row in this step.
YieldsRow(s) == iters[s].pc = "fetching" /\ iters'[s].pc = "suspended"

\* C21: a Cursor is not restartable. #done and #closed never fall back to
\* false, a consumer that has ended stays ended, and a consumer that asks for a
\* row of an exhausted or closed Cursor ends at once: it is handed no row and
\* no cursor-next call is issued for it.
C21_CursorNotRestartable ==
  [][/\ \A c \in CurIds : /\ done[c] => done'[c]
                          /\ curClosed[c] => curClosed'[c]
     /\ \A s \in Iters :
          /\ iters[s].pc \in {"ended", "errored"} => iters'[s] = iters[s]
          /\ (AsksNow(s) /\ (done[iters'[s].cur] \/ curClosed[iters'[s].cur]))
               => /\ iters'[s].pc \in {"ended"}
                  /\ iters'[s].fetched = iters[s].fetched]_vars

\* C21 witness: a second consumer of a Cursor that the first one had read to
\* its end has ended without any cursor-next call.
C21_Witness ==
  /\ iters[1].pc = "ended" /\ iters[1].fetched /\ done[1]
  /\ iters[2].pc = "ended" /\ ~iters[2].fetched /\ iters[2].cur = 1

\* A fetch on cursor c has raised the error of a structured error payload.
Errored(c) == \E s \in Iters : iters[s].cur = c /\ iters[s].pc = "errored"

\* C22: a cursor-next response with a structured error payload makes the fetch
\* raise an error (the consumer neither gets a row nor sees the end of data)
\* and ends the consumer; afterwards no row is yielded from that Cursor. (A
\* consumer that has cancelled its ReadableStream has ended already.)
C22_ErrorPayloadEndsIteration ==
  [][\A s \in Iters :
       /\ (iters[s].pc = "fetching" /\ ~iters[s].cancelled
           /\ observed' = "streamNext" /\ iters'[s] # iters[s])
            => iters'[s].pc = "errored" /\ ~done'[iters[s].cur]
       /\ iters[s].pc = "errored" => iters'[s] = iters[s]
       /\ YieldsRow(s) => ~Errored(iters[s].cur)]_vars

\* Transaction t is deactivated by its disposal in this step.
TxDisposedNow(t) == t \in Created /\ rolledBack'[t] /\ ~rolledBack[t]

\* C23 as stated: a Cursor gets its stream-close call exactly once: never
\* twice, and the call has been made when a consumer has read to the end or has
\* left its loop early, when the disposal of the owning Connection has
\* completed (for every cursor opened on the Connection), and when the owning
\* Transaction has been disposed (for every cursor it tracks).
C23_StreamCloseExactlyOnce ==
  [][/\ \A c \in CurIds : nStreamClose'[c] <= 1
     /\ \A s \in Iters : iters'[s].pc = "ended" => nStreamClose'[iters'[s].cur] = 1
     /\ (dispPc' = "done" /\ dispPc # "done")
          => \A c \in 1..(nextCur' - 1) : nStreamClose'[c] = 1
     /\ \A t \in TxIds :
          TxDisposedNow(t)
            => \A c \in txStreams[t] \cup txStreams'[t] : nStreamClose'[c] = 1]_vars

\* ---- properties of pool-level calls ----

\* The boundary receives poolRelease, resp. disconnect, for the connection of
\* pool-level call i in this step.
ConvReleased(i) == conv'[i].nPoolRelease = conv[i].nPoolRelease + 1
ConvDisconnected(i) == conv'[i].nDisconnect = conv[i].nDisconnect + 1
ConvTerminalCalls(cn) == cn.nPoolRelease + cn.nDisconnect

\* What C28 says of the connection of call i: it is disposed, and handed to
\* its terminal call, only after the command's boundary call has completed;
\* and when the command did not fail, that terminal call is one poolRelease,
\* the only one of the call.
ReleasesAfterCommand(i) ==
  /\ (conv'[i].disposed /\ ~conv[i].disposed) => conv[i].call = "none"
  /\ (ConvReleased(i) \/ ConvDisconnected(i))
       => /\ conv[i].call = "none"
          /\ ~conv[i].hasError
               => ConvReleased(i) /\ ~ConvDisconnected(i)
  /\ conv'[i].dispPc = "done"
       => /\ ConvTerminalCalls(conv'[i]) = 1
          /\ ~conv'[i].hasError => conv'[i].nPoolRelease = 1

\* C28 as stated: every pool convenience call issues exactly one poolAcquire,
\* releases only after its command's boundary call has completed, and makes
\* exactly one poolRelease when the command succeeded.
C28_Original ==
  [][\A i \in PoolCalls :
       conv'[i].kind \in CommandKinds =>
         conv'[i].acquires = 1 /\ ReleasesAfterCommand(i)]_vars

\* C28 amended: a pool convenience call made on a MssqlPool that is not closed
\* issues exactly one poolAcquire, releases only after its command's boundary
\* call has completed, and makes exactly one poolRelease when the command
\* succeeded; a call made on a closed MssqlPool throws and issues neither a
\* poolAcquire nor a poolRelease.
C28_ConvenienceAcquiresAndReleasesOnce ==
  [][\A i \in PoolCalls :
       conv'[i].kind \in CommandKinds =>
         IF conv'[i].pc = "refused"
         THEN conv'[i].acquires = 0 /\ ConvTerminalCalls(conv'[i]) = 0
         ELSE conv'[i].acquires = 1 /\ ReleasesAfterCommand(i)]_vars

\* C28 witness: two convenience commands on the same pool object, made one
\* after the other; the first succeeded and released its connection, the
\* second is awaiting its command.
C28_Witness ==
  /\ conv[1].kind \in CommandKinds /\ conv[1].acquires = 1
  /\ conv[1].dispPc = "done" /\ ~conv[1].hasError /\ conv[1].call = "none"
  /\ conv[1].nPoolRelease = 1 /\ conv[1].nDisconnect = 0
  /\ conv[2].kind \in CommandKinds /\ conv[2].h = conv[1].h
  /\ conv[2].call # "none" /\ ~conv[2].disposed

\* C29: the connection acquired by pool.queryStream is held while the stream
\* is open (no release or disconnect call is made for it), it is disposed when
\* the stream closes (at the latest by the finally of the iterator that is
\* about to run), its disposal makes one terminal call, and that call is a
\* poolRelease when the connection is error-free.
C29_PooledStreamDisposesConnection ==
  \A i \in PoolCalls :
    Streaming(i) =>
      /\ ~curClosed[conv[i].cur] => ConvTerminalCalls(conv[i]) = 0
      /\ curClosed[conv[i].cur] => conv[i].disposed \/ FinallyPending(i)
      /\ ConvTerminalCalls(conv[i]) <= 1
      /\ conv[i].dispPc = "done"
           => /\ ConvTerminalCalls(conv[i]) = 1
              /\ ~conv[i].hasError => conv[i].nPoolRelease = 1

\* #cleanup takes up transaction t in this step: as the first one when the
\* disposal starts, or as the next one when its loop resumes.
CleanupVisits(t) ==
  \/ /\ ~disposed /\ disposed'
     /\ transactions # <<>> /\ Head(transactions) = t
  \/ /\ dispPc = "loop" /\ dispTxs # <<>> /\ Head(dispTxs) = t
     /\ dispTxs' = Tail(dispTxs)

\* C31: asynchronous disposal of a pool-owned, error-free Connection with an
\* active Transaction issues the rollback call for the Transaction when
\* #cleanup takes it up, and makes its terminal call only after the rollback
\* has returned; that call is poolRelease, not disconnect.
C31_AsyncDisposeRollsBackThenReleases ==
  [][dispMode' = "asyncDispose" =>
       /\ \A t \in TxIds :
            (CleanupVisits(t) /\ IsActive(t))
              => /\ Issues("rollback", t, "cleanup")
                 /\ UNCHANGED <<nPoolRelease, nDisconnect>>
       /\ (TerminalCall /\ poolId # 0 /\ ~hasError)
            => /\ ReleasedOnly
               /\ dispTxs = <<>>
               /\ \A call \in inflight : call.by # "cleanup"]_vars

\* C31 witness: an error-free pooled connection, asynchronously disposed while
\* its transaction was active: the rollback was issued and has returned, and
\* the connection was released.
C31_Witness ==
  /\ poolId # 0 /\ ~hasError /\ dispMode = "asyncDispose" /\ dispPc = "done"
  /\ startHadActiveTx /\ nRollbackByDispose[1] = 1 /\ rolledBack[1]
  /\ nPoolRelease = 1 /\ nDisconnect = 0

\* C32: a query, execute, exec or queryStream called with a cancellation signal
\* that is already aborted fails before any boundary call is issued: the step
\* puts no call in flight and changes nothing on the connection.
C32_AbortedSignalFailsFast ==
  [][observed' = "aborted"
       => /\ inflight' = inflight
          /\ UNCHANGED <<hasError, disposed, nextCur, streams,
                         nPoolRelease, nDisconnect>>]_vars

\* C32 witness: a command called with an aborted signal, on an open connection
\* with an active transaction and no call in flight, issued nothing.
C32_Witness ==
  /\ observed = "aborted" /\ ~disposed /\ inflight = {}
  /\ nextTx > 1 /\ IsActive(1)

\* ---- C33 ----
\* C33: for every ExecResult and every name n without a leading "@",
\* getOutput(n) and getOutput("@" + n) have the same outcome: the same value
\* when the output parameter n exists, and a not-found error when it does not.
C33_GetOutputIgnoresAtPrefix ==
  \A n \in Names :
    (~StartsWithAt(n) /\ <<"@">> \o n \in Names) =>
      /\ GetOutput(execRes.data, n) = GetOutput(execRes.data, <<"@">> \o n)
      /\ (execRes.op = "getOutput" /\ execRes.name \in {n, <<"@">> \o n}) =>
           IF HasOwn(execRes.data.outputParams, n)
           THEN execRes.out.ok /\ execRes.out.value = execRes.data.outputParams[n]
           ELSE ~execRes.out.ok /\ execRes.out.value = <<"not found", n>>

\* ---- C34 ----
\* C34: on an ExecResult with k result sets, getResults(i) and
\* getResultFirst(i) raise a RangeError for every i < 0 and every i >= k;
\* for 0 <= i < k getResults(i) returns the i-th result set and
\* getResultFirst(i) its first row. No call with an out-of-range index returns.
C34_OutOfRangeIndexIsRangeError ==
  LET k == Len(execRes.data.resultSets)
  IN  /\ \A i \in Indexes :
           IF i < 0 \/ i >= k
           THEN /\ ~GetResults(execRes.data, i).ok
                /\ GetResults(execRes.data, i).error = "RangeError"
                /\ ~GetResultFirst(execRes.data, i).ok
                /\ GetResultFirst(execRes.data, i).error = "RangeError"
           ELSE /\ GetResults(execRes.data, i).ok
                /\ GetResults(execRes.data, i).value = execRes.data.resultSets[i + 1]
                /\ GetResultFirst(execRes.data, i).ok
      /\ (execRes.op \in {"getResults", "getResultFirst"}
            /\ (execRes.index < 0 \/ execRes.index >= k))
           => (~execRes.out.ok /\ execRes.out.error = "RangeError")
C34_Witness ==
  /\ Len(execRes.data.resultSets) = 2
  /\ execRes.op = "getResults" /\ execRes.index = 0 - 1
  /\ execRes.out.error = "RangeError"

\* ---- C35 ----
\* C35: as long as loadLibrary has not been called, at most one
\* initialisation was started and at most one backend created, and all
\* callers of getFfi() hold the same promise, hence get the same instance.
C35_OneInitializationShared ==
  ~ffi.loaded =>
    /\ Len(ffi.promises) <= 1
    /\ ffi.created <= 1
    /\ \A c \in FfiCallers :
         ffi.callers[c].pc # "idle" => ffi.callers[c].promise = ffi.promise
C35_Witness ==
  /\ ~ffi.loaded /\ ffi.runtime = "node"
  /\ ffi.promises = <<"creating">> /\ ffi.created = 1
  /\ \A c \in FfiCallers :
       ffi.callers[c].pc = "awaiting" /\ ffi.callers[c].promise = 1

\* ---- C36 ----
\* C36: a pool-owned connection is handed back with ffi.poolRelease only when
\* every transaction begun on it was ended at the boundary (ffi.commit or
\* ffi.rollback resolved without error); after a failed rollback in
\* [Symbol.asyncDispose] the connection is disconnected instead.
C36_ReleasedOnlyWithEndedTransactions ==
  [][nPoolRelease' > nPoolRelease => \A t \in Created : t \in ended']_vars

\* ---- C37 ----
\* An explicit commit() or rollback() of transaction t returns with a failure.
ExplicitEndFailed(t) ==
  \E call \in inflight \ inflight' :
    /\ call.by = "user" /\ call.kind \in {"commit", "rollback"} /\ call.tx = t
    /\ observed' = call.kind

\* C37: a failed explicit commit() or rollback() reaches the caller as a
\* failure and changes neither flag of the transaction, so a transaction that
\* was active stays active; an active transaction is never refused as
\* inactive, and a disposal that finds it active issues the implicit rollback.
C37_FailedEndLeavesTransactionActive ==
  [][/\ \A t \in TxIds :
          /\ ExplicitEndFailed(t) =>
               (committed'[t] = committed[t] /\ rolledBack'[t] = rolledBack[t])
          /\ (dispMode' = "asyncDispose" /\ CleanupVisits(t) /\ IsActive(t)) =>
               (\E c \in inflight' : Matches(c, "rollback", t, "cleanup"))
     /\ observed' = "notActive" => \E t \in Created : ~IsActive(t)]_vars
C37_Witness ==
  /\ observed = "commit" /\ nextTx > 1 /\ IsActive(1) /\ inflight = {} /\ ~disposed

\* ---- C38 ----
\* C38: once ffi.streamClose was called for a cursor, no ffi.streamNext call
\* for it is issued or still in flight, and no consumer is handed a row of it.
C38_NoFetchAcrossClose ==
  [][\A s \in Iters :
       /\ iters'[s].pc = "fetching" => nStreamClose'[iters'[s].cur] = 0
       /\ YieldsRow(s) => nStreamClose'[iters'[s].cur] = 0]_vars

\* ---- C39 ----
\* C39: once a pool handle has called ffi.poolClose, no ffi.poolAcquire is
\* issued or in flight for its pool id, and no connection it handed out
\* calls ffi.poolRelease with that pool id.
C39_NoPoolCallAfterPoolClose ==
  [][\A i \in PoolCalls :
       /\ (conv'[i].h # 0 /\ handles'[conv'[i].h].poolCloseCalls > 0)
            => conv'[i].pc # "acquiring"
       /\ (conv[i].h # 0 /\ handles[conv[i].h].poolCloseCalls > 0)
            => /\ conv'[i].acquires = conv[i].acquires
               /\ conv'[i].nPoolRelease = conv[i].nPoolRelease]_vars

\* ---- C40 ----
\* C40: a failure that is no failed boundary call (a command on a disposed
\* connection or with an inactive transaction, an aborted signal, the
\* row-count error of querySingle) leaves #hasError as it was; and a
\* pool-owned connection whose flag is clear, disposed without an active
\* transaction, is released to its pool.
C40_LocalFailuresKeepErrorFlag ==
  [][/\ observed' \in {"disposed", "notActive", "aborted", "rowCount"}
          => hasError' = hasError
     /\ (TerminalCall /\ poolId # 0 /\ ~hasError /\ ~startHadActiveTx')
          => ReleasedOnly]_vars
C40_Witness ==
  /\ observed = "rowCount" /\ ~hasError /\ poolId # 0 /\ ~disposed
  /\ nextTx > 1 /\ ~IsActive(1)

====
